---------------------------- MODULE Spec2Model ----------------------------
(***************************************************************************)
(* Model of the transaction-flow analysis engine of HackNode               *)
(* (src/core/blockchain_tracker.py, class BlockchainTracker).              *)
(*                                                                         *)
(* Strings are tuples of one-character strings, so that prefixes, lengths  *)
(* and case folding are computed the way the code computes them.           *)
(* Python's None is the value None below; a missing dictionary key or      *)
(* attribute is Missing.  Probabilities and amounts are exact rationals    *)
(* [num, den] (the code uses floats; rounding of floats is not modelled).  *)
(* Calls of the logging collaborator (src/core/logger.py) are taken to     *)
(* have no effect on the engine and are left out, except where a handler   *)
(* evaluates an expression of the engine to build its log record.  (As     *)
(* written, get_logger(name) returns a BlockTrackerLogger, which defines   *)
(* no info, warning, error or debug method, so each such call would raise  *)
(* AttributeError; the engine is modelled with a logger that logs.)        *)
(***************************************************************************)
EXTENDS Integers, Sequences, FiniteSets, TLC

VARIABLES
    pc,                \* position of the running call
    address,           \* the address argument of the running call
    currency_arg,      \* analyze: the currency argument ("" for None or no argument)
    currency,          \* analyze: the resolved currency tag
    steps,             \* the engine operations the running call has invoked, in order
    etherscan_api_key, \* self.etherscan_api_key is non-empty
    calls,             \* the upstream calls made so far, in order, each with its outcome
    transactions,      \* the fetched transaction list
    i,                 \* number of transactions build_transaction_tree has processed
    graph,             \* the DiGraph G
    start_address,     \* find_end_receivers: start_address
    max_depth,         \* find_end_receivers: max_depth
    stack,             \* find_end_receivers: the pending dfs calls, innermost first
    visited,           \* find_end_receivers: visited
    end_receivers,     \* find_end_receivers: end_receivers
    result,            \* what the call returned or raised
    again,             \* detect_currency: the tag returned by a second call
    max_transactions_arg, \* adapter called on its own: max_transactions
    upstream,          \* adapter called on its own: the upstream answers it was given
    threads            \* the thread that is running, and the local variables of the
                       \* threads that are not (the variables above that belong
                       \* to a call are the local variables of the running thread)

vars == <<pc, address, currency_arg, currency, steps, etherscan_api_key, calls, transactions, i, graph,
          start_address, max_depth, stack, visited, end_receivers, result, again,
          max_transactions_arg, upstream, threads>>

\* ------------------------------------------------------------------ bounds

\* Characters appended after a rule prefix when enumerating addresses.
MaxTail == 1

\* Longest transaction list enumerated exhaustively as a ranking input.
MaxTx == 3

\* Largest max_depth passed to find_end_receivers.
MaxDepth == 3

\* Sinks on each of the two levels of the fan-shaped ranking inputs.
MaxFan == 6

\* Longest list of records in an upstream response.
MaxRecords == 3

\* ----------------------------------------------------------------- strings

None == <<"<None>">>
Missing == <<"<Missing>">>
NoResult == [kind |-> "none"]

UpperCase == <<"A","B","C","D","E","F","G","H","I","J","K","L","M",
               "N","O","P","Q","R","S","T","U","V","W","X","Y","Z">>
LowerCase == <<"a","b","c","d","e","f","g","h","i","j","k","l","m",
               "n","o","p","q","r","s","t","u","v","w","x","y","z">>

\* str.lower() on one character
LowerChar(c) ==
    IF \E k \in 1..Len(UpperCase) : UpperCase[k] = c
    THEN LowerCase[CHOOSE k \in 1..Len(UpperCase) : UpperCase[k] = c]
    ELSE c

UpperChar(c) ==
    IF \E k \in 1..Len(LowerCase) : LowerCase[k] = c
    THEN UpperCase[CHOOSE k \in 1..Len(LowerCase) : LowerCase[k] = c]
    ELSE c

\* str.lower()
lower(s) == [k \in 1..Len(s) |-> LowerChar(s[k])]

upper(s) == [k \in 1..Len(s) |-> UpperChar(s[k])]

\* str.startswith(prefix)
startswith(s, prefix) ==
    /\ Len(s) >= Len(prefix)
    /\ SubSeq(s, 1, Len(prefix)) = prefix

\* ---------------------------------------------------------- detect_currency

TronAddressLength == 34

Tags == {"ETH", "BTC", "TRX", "ADA", "ATOM", "XRP", "XLM", "UNKNOWN"}

\* A slip the classifier could contain: the length gate of the TRX rule dropped.
detect_currency_no_length(addr) ==
    LET address_lower == lower(addr) IN
    IF startswith(address_lower, <<"0","x">>) THEN "ETH"
    ELSE IF \/ startswith(address_lower, <<"b","c","1">>)
            \/ startswith(address_lower, <<"1">>)
            \/ startswith(address_lower, <<"3">>) THEN "BTC"
    ELSE IF startswith(address_lower, <<"t">>) THEN "TRX"
    ELSE IF startswith(address_lower, <<"a","d","d","r">>) THEN "ADA"
    ELSE IF startswith(address_lower, <<"c","o","s","m","o","s">>) THEN "ATOM"
    ELSE IF startswith(address_lower, <<"r">>) THEN "XRP"
    ELSE IF startswith(address_lower, <<"g">>) THEN "XLM"
    ELSE "UNKNOWN"

detect_currency(addr) ==
    LET address_lower == lower(addr) IN
    IF startswith(address_lower, <<"0","x">>) THEN "ETH"
    ELSE IF \/ startswith(address_lower, <<"b","c","1">>)
            \/ startswith(address_lower, <<"1">>)
            \/ startswith(address_lower, <<"3">>) THEN "BTC"
    ELSE IF startswith(address_lower, <<"t">>) /\ Len(addr) = TronAddressLength THEN "TRX"
    ELSE IF startswith(address_lower, <<"a","d","d","r">>) THEN "ADA"
    ELSE IF startswith(address_lower, <<"c","o","s","m","o","s">>) THEN "ATOM"
    ELSE IF startswith(address_lower, <<"r">>) THEN "XRP"
    ELSE IF startswith(address_lower, <<"g">>) THEN "XLM"
    ELSE "UNKNOWN"

\* The addresses the classifier is exercised on: every prefix of every rule
\* keyword, in lower and in upper case, followed by up to MaxTail further
\* characters, as it stands and padded to one below, exactly and one above
\* the TRX length.
Keywords == { <<"0","x">>, <<"b","c","1">>, <<"1">>, <<"3">>, <<"t">>,
              <<"a","d","d","r">>, <<"c","o","s","m","o","s">>, <<"r">>, <<"g">>,
              <<"z">> }

Prefixes(s) == { SubSeq(s, 1, n) : n \in 0..Len(s) }

Heads == UNION { Prefixes(k) \cup Prefixes(upper(k)) : k \in Keywords }

TailChars == {"x", "1", "R", "t"}

RECURSIVE Tails(_)
Tails(n) ==
    IF n = 0 THEN { <<>> }
    ELSE Tails(n - 1) \cup { Append(t, c) : t \in Tails(n - 1), c \in TailChars }

Pad(s, n) == s \o [k \in 1..(n - Len(s)) |-> "q"]

ClassifyAddresses ==
    { Pad(h \o t, n) : h \in Heads, t \in Tails(MaxTail),
                       n \in {0, TronAddressLength - 1, TronAddressLength,
                              TronAddressLength + 1} }

\* ------------------------------------------------------------ Transaction

\* Transaction(tx_hash, from_address, to_address, timestamp, amount, currency,
\* block_number); gas_price and gas_used are read by no engine operation.
Transaction(tx_hash, from_address, to_address, timestamp, amount, cur, block_number) ==
    [tx_hash |-> tx_hash, from_address |-> from_address, to_address |-> to_address,
     timestamp |-> timestamp, amount |-> amount, currency |-> cur,
     block_number |-> block_number]

\* Exact rationals for the float values of the code.
Rat(n, d) == [num |-> n, den |-> d]

RatGreater(a, b) == a.num * b.den > b.num * a.den

\* An amount num / 10^exp, for the float the code computes by dividing an
\* integer of minor units by a power of ten.
Amount(n, e) == [num |-> n, exp |-> e]

RECURSIVE TenTo(_)
TenTo(e) == IF e = 0 THEN 1 ELSE 10 * TenTo(e - 1)

AmountAdd(a, b) ==
    IF a.exp = b.exp THEN Amount(a.num + b.num, a.exp)
    ELSE IF a.exp < b.exp THEN Amount(a.num * TenTo(b.exp - a.exp) + b.num, b.exp)
    ELSE Amount(a.num + b.num * TenTo(a.exp - b.exp), a.exp)

\* ------------------------------------------------------------ nx.DiGraph
\* A graph is its nodes and its edges, each in insertion order (networkx keeps
\* both in insertion-ordered dictionaries): one entry per node, one entry per
\* ordered pair (u, v).

EmptyGraph == [nodes |-> <<>>, edges |-> <<>>]

HasNode(G, n) == \E k \in 1..Len(G.nodes) : G.nodes[k].id = n

HasEdge(G, u, v) == \E k \in 1..Len(G.edges) : G.edges[k].u = u /\ G.edges[k].v = v

NodeIds(G) == { G.nodes[k].id : k \in 1..Len(G.nodes) }

\* G.add_node(n, currency=, first_seen=, last_seen=): a new node is appended,
\* an existing node has its attribute dictionary updated with the given values.
add_node(G, n, cur, first_seen, last_seen) ==
    LET rec == [id |-> n, currency |-> cur, first_seen |-> first_seen,
                last_seen |-> last_seen] IN
    IF HasNode(G, n)
    THEN [G EXCEPT !.nodes = [k \in 1..Len(G.nodes) |->
                                 IF G.nodes[k].id = n THEN rec ELSE G.nodes[k]]]
    ELSE [G EXCEPT !.nodes = Append(G.nodes, rec)]

\* A slip: nx.Graph() instead of nx.DiGraph(), every edge held in both
\* directions.
add_edge_undirected(G, u, v, tx_hash, amount, timestamp, cur) ==
    LET rec(a, b) == [u |-> a, v |-> b, tx_hash |-> tx_hash, amount |-> amount,
                      timestamp |-> timestamp, currency |-> cur]
        bare(n) == [id |-> n, currency |-> "", first_seen |-> 0, last_seen |-> 0]
        G1 == IF HasNode(G, u) THEN G ELSE [G EXCEPT !.nodes = Append(G.nodes, bare(u))]
        G2 == IF HasNode(G1, v) THEN G1 ELSE [G1 EXCEPT !.nodes = Append(G1.nodes, bare(v))]
        others == SelectSeq(G2.edges, LAMBDA e : ~(e.u = u /\ e.v = v) /\ ~(e.u = v /\ e.v = u))
    IN [G2 EXCEPT !.edges = others \o <<rec(u, v), rec(v, u)>>]

\* G.add_edge(u, v, tx_hash=, amount=, timestamp=, currency=): a DiGraph holds
\* one edge per ordered pair; adding it again updates its attribute dictionary.
add_edge(G, u, v, tx_hash, amount, timestamp, cur) ==
    LET rec == [u |-> u, v |-> v, tx_hash |-> tx_hash, amount |-> amount,
                timestamp |-> timestamp, currency |-> cur]
        bare(n) == [id |-> n, currency |-> "", first_seen |-> 0, last_seen |-> 0]
        G1 == IF HasNode(G, u) THEN G ELSE [G EXCEPT !.nodes = Append(G.nodes, bare(u))]
        G2 == IF HasNode(G1, v) THEN G1 ELSE [G1 EXCEPT !.nodes = Append(G1.nodes, bare(v))]
    IN
    IF HasEdge(G2, u, v)
    THEN [G2 EXCEPT !.edges = [k \in 1..Len(G2.edges) |->
                                  IF G2.edges[k].u = u /\ G2.edges[k].v = v
                                  THEN rec ELSE G2.edges[k]]]
    ELSE [G2 EXCEPT !.edges = Append(G2.edges, rec)]

RECURSIVE SuccessorsFrom(_, _, _)
SuccessorsFrom(G, n, k) ==
    IF k > Len(G.edges) THEN <<>>
    ELSE IF G.edges[k].u = n THEN <<G.edges[k].v>> \o SuccessorsFrom(G, n, k + 1)
    ELSE SuccessorsFrom(G, n, k + 1)

\* list(graph.successors(node)) for a node of the graph: the heads of its
\* out-edges in insertion order, each once.
successors(G, n) == SuccessorsFrom(G, n, 1)

\* Truth value of graph.get_edge_data(u, v): the attribute dictionary of the
\* edge (never empty for an edge added by build_transaction_tree), or None.
get_edge_data(G, u, v) == HasEdge(G, u, v)

\* ---------------------------------------------------------- chain adapters
\* An upstream response is [kind, ...]: kind "network_error" (session.get
\* raises), "http_error" (a status that is not 2xx), "bad_json"
\* (response.json() raises) or "ok" with the decoded body.  In a record of a
\* body a missing key is Missing for text and -1 for a number (which also
\* stands for text that is no number); dict is FALSE for an entry that is no
\* JSON object.  Timestamps are milliseconds since the epoch.

DefaultMaxTransactions == 1000

Min(a, b) == IF a < b THEN a ELSE b

Fetched(txs, made) == [transactions |-> txs, calls |-> made]

\* an upstream call and how it ended (the kind of its response)
Call(endpoint, outcome) == [endpoint |-> endpoint, outcome |-> outcome]

RECURSIVE MapSelect(_, _, _)
\* [ f[x] for x in s if keep[x] ], f and keep given as functions over the
\* elements of s
MapSelect(s, keep, f) ==
    IF s = <<>> THEN <<>>
    ELSE (IF keep[Head(s)] THEN <<f[Head(s)]>> ELSE <<>>) \o MapSelect(Tail(s), keep, f)

Elements(s) == { s[k] : k \in 1..Len(s) }

\* the body of the try block of the Ethereum loop runs without an exception
EthParses(tx) ==
    /\ tx.value >= 0 /\ tx.timeStamp >= 0
    /\ tx.hash # Missing /\ tx.from # Missing /\ tx.to # Missing
    /\ tx.blockNumber >= 0 /\ tx.gasPrice >= 0 /\ tx.gasUsed >= 0

EthTransaction(tx) ==
    Transaction(tx.hash, tx.from, tx.to, tx.timeStamp * 1000, Amount(tx.value, 18),
                "ETH", tx.blockNumber)

\* A slip: the request is sent although no API key is configured.
get_ethereum_transactions_without_key_check(key, addr, max_transactions, resp) ==
    LET made == <<Call("etherscan/txlist", resp.kind)>>
        page == SubSeq(resp.result, 1, Min(max_transactions, Len(resp.result)))
    IN
    IF resp.kind # "ok" THEN Fetched(<<>>, made)
    ELSE IF resp.status # "1" THEN Fetched(<<>>, made)
    ELSE IF \E tx \in Elements(page) : ~tx.dict THEN Fetched(<<>>, made)
    ELSE Fetched(MapSelect(page,
                           [tx \in Elements(page) |-> EthParses(tx)],
                           [tx \in Elements(page) |-> EthTransaction(tx)]),
                 made)

\* get_ethereum_transactions(address, max_transactions) with the upstream
\* answering resp.  Any exception outside the per-record try, and any raised
\* by the per-record handler itself (tx.get on an entry that is no dict),
\* reaches the outer handler, which returns [].
get_ethereum_transactions(key, addr, max_transactions, resp) ==
    IF ~key THEN Fetched(<<>>, <<>>)
    ELSE LET made == <<Call("etherscan/txlist", resp.kind)>>
             page == SubSeq(resp.result, 1, Min(max_transactions, Len(resp.result)))
         IN
         IF resp.kind # "ok" THEN Fetched(<<>>, made)
         ELSE IF resp.status # "1" THEN Fetched(<<>>, made)
         ELSE IF \E tx \in Elements(page) : ~tx.dict THEN Fetched(<<>>, made)
         ELSE Fetched(MapSelect(page,
                                [tx \in Elements(page) |-> EthParses(tx)],
                                [tx \in Elements(page) |-> EthTransaction(tx)]),
                      made)

\* A slip: the queried address is taken as the receiver.
BtcTransactionReversed(addr, tx) ==
    [tx_hash |-> tx.txid, from_address |-> <<>>, to_address |-> addr,
     timestamp |-> tx.block_time * 1000, amount |-> [num |-> 1, exp |-> 3],
     currency |-> "BTC", block_number |-> tx.block_height]

\* A slip: every transaction gets a receiver of its own.
BtcTransactionToOwnReceiver(addr, tx) ==
    [tx_hash |-> tx.txid, from_address |-> addr, to_address |-> tx.txid,
     timestamp |-> tx.block_time * 1000, amount |-> [num |-> 1, exp |-> 3],
     currency |-> "BTC", block_number |-> tx.block_height]

BtcTransaction(addr, tx) ==
    Transaction(tx.txid, addr, <<>>, tx.block_time * 1000, Amount(1, 3), "BTC",
                tx.block_height)

\* A slip: the answer to the address call is not looked at.
get_bitcoin_transactions_ignoring_summary(addr, max_transactions, summary, resp) ==
    LET both == <<Call("blockstream/address", summary.kind),
                  Call("blockstream/address/txs", resp.kind)>>
        page == SubSeq(resp.result, 1, Min(max_transactions, Len(resp.result)))
    IN
    IF resp.kind # "ok" THEN Fetched(<<>>, both)
    ELSE IF \E tx \in Elements(page) : ~tx.dict THEN Fetched(<<>>, both)
    ELSE Fetched(MapSelect(page,
                           [tx \in Elements(page) |-> tx.block_time > 0 /\ tx.txid # <<>>],
                           [tx \in Elements(page) |-> BtcTransaction(addr, tx)]),
                 both)

\* A slip: the transaction list is requested whatever count the address call
\* reported.
get_bitcoin_transactions_ignoring_count(addr, max_transactions, summary, resp) ==
    LET first == <<[endpoint |-> "blockstream/address", outcome |-> summary.kind]>>
        both == Append(first, [endpoint |-> "blockstream/address/txs",
                               outcome |-> resp.kind])
        n == IF max_transactions < Len(resp.result) THEN max_transactions
             ELSE Len(resp.result)
        page == SubSeq(resp.result, 1, n)
        kept == SelectSeq(page, LAMBDA tx : tx.block_time > 0 /\ tx.txid # <<>>)
    IN
    IF summary.kind # "ok" THEN [transactions |-> <<>>, calls |-> first]
    ELSE IF resp.kind # "ok" THEN [transactions |-> <<>>, calls |-> both]
    ELSE IF \E k \in 1..n : ~page[k].dict THEN [transactions |-> <<>>, calls |-> both]
    ELSE [transactions |->
              [k \in 1..Len(kept) |->
                  [tx_hash |-> kept[k].txid, from_address |-> addr, to_address |-> <<>>,
                   timestamp |-> kept[k].block_time * 1000,
                   amount |-> [num |-> 1, exp |-> 3], currency |-> "BTC",
                   block_number |-> kept[k].block_height]],
          calls |-> both]

\* get_bitcoin_transactions(address, max_transactions) with the upstream
\* answering summary to the address call and resp to the transaction-list
\* call.  tx.get(...) defaults: txid '' and block_time 0 when absent.
get_bitcoin_transactions(addr, max_transactions, summary, resp) ==
    LET first == <<Call("blockstream/address", summary.kind)>>
        both == Append(first, Call("blockstream/address/txs", resp.kind))
        page == SubSeq(resp.result, 1, Min(max_transactions, Len(resp.result)))
    IN
    IF summary.kind # "ok" THEN Fetched(<<>>, first)
    ELSE IF summary.tx_count = 0 THEN Fetched(<<>>, first)
    ELSE IF resp.kind # "ok" THEN Fetched(<<>>, both)
    ELSE IF \E tx \in Elements(page) : ~tx.dict THEN Fetched(<<>>, both)
    ELSE Fetched(MapSelect(page,
                           [tx \in Elements(page) |-> tx.block_time > 0 /\ tx.txid # <<>>],
                           [tx \in Elements(page) |-> BtcTransaction(addr, tx)]),
                 both)

\* the body of the try block of the Tron loop appends a transaction
TronParses(tx) ==
    /\ tx.type = "Transfer"
    /\ tx.value >= 0
    /\ tx.txID # Missing
    /\ tx.block_timestamp >= 0

TronTransaction(tx) ==
    Transaction(tx.txID, tx.from, tx.to, tx.block_timestamp, Amount(tx.value, 6),
                "TRX", tx.block)

\* get_tron_transactions(address, max_transactions) with the upstream
\* answering resp; max_transactions is only sent upstream as the limit
\* parameter.  tx.get(...) defaults: from '' and to '' when absent, value 0.
get_tron_transactions(addr, max_transactions, resp) ==
    LET made == <<Call("trongrid/transactions", resp.kind)>> IN
    IF resp.kind # "ok" THEN Fetched(<<>>, made)
    ELSE IF \E tx \in Elements(resp.result) : ~tx.dict THEN Fetched(<<>>, made)
    ELSE Fetched(MapSelect(resp.result,
                           [tx \in Elements(resp.result) |-> TronParses(tx)],
                           [tx \in Elements(resp.result) |-> TronTransaction(tx)]),
                 made)

\* ------------------------------------------------- build_transaction_tree

\* One iteration of the loop of build_transaction_tree on transaction tx: the
\* graph after it, and whether an exception left the loop (the handler reads
\* tx.tx_hash, which raises again when the attribute is missing).
\* add_node and add_edge raise ValueError for None; reading a missing attribute
\* raises AttributeError; what was added before the exception stays.  The
\* attributes that may be None or missing here are the two addresses and the
\* hash; timestamp, amount and currency are taken to be present.
build_step(G, tx) ==
    LET G1 == add_node(G, tx.from_address, tx.currency, tx.timestamp, tx.timestamp)
        G2 == add_node(G1, tx.to_address, tx.currency, tx.timestamp, tx.timestamp)
        G3 == add_edge(G2, tx.from_address, tx.to_address, tx.tx_hash, tx.amount,
                       tx.timestamp, tx.currency)
        handled(H) == [graph |-> H, added |-> FALSE, raised |-> tx.tx_hash = Missing]
    IN
    IF tx.from_address \in {Missing, None}
    THEN handled(G)
    ELSE IF tx.to_address \in {Missing, None}
    THEN handled(G1)
    ELSE IF tx.tx_hash = Missing
    THEN handled(G2)
    ELSE [graph |-> G3, added |-> TRUE, raised |-> FALSE]

\* The loop of build_transaction_tree from transaction k on: the graph when
\* the loop ends, or when an exception leaves it.
RECURSIVE BuildFrom(_, _, _)
BuildFrom(G, txs, k) ==
    IF k > Len(txs) THEN G
    ELSE LET step == build_step(G, txs[k]) IN
         IF step.raised THEN step.graph
         ELSE BuildFrom(step.graph, txs, k + 1)

build_transaction_tree(txs) == BuildFrom(EmptyGraph, txs, 1)

\* ------------------------------------------------------ find_end_receivers

DefaultMaxDepth == 5

TopCandidates == 10

\* A slip: "20% reduction per hop" taken as a subtraction of 0.2.
DecayBySubtraction(p) == Rat(p.num * 5 - p.den, p.den * 5)

\* path_probability * 0.8
Decay(p) == Rat(p.num * 4, p.den * 5)

\* A slip: the depth bound tested with >= instead of >.
BeyondDepthInclusive(depth, bound) == depth >= bound

\* A slip: the bound lets the traversal go one hop farther.
BeyondDepthOffByOne(depth, bound) == depth > bound + 1

\* depth > max_depth
BeyondDepth(depth, bound) == depth > bound

One == Rat(1, 1)

\* end_receivers.sort(key=lambda x: x[1], reverse=True): list.sort is stable,
\* so candidate j stands before candidate k when its probability is greater, or
\* is equal and j was appended first; the sorted list holds at place r the
\* candidate that r - 1 candidates stand before
SortDesc(s) ==
    LET before(j, k) ==
            \/ RatGreater(s[j].probability, s[k].probability)
            \/ (~RatGreater(s[k].probability, s[j].probability) /\ j < k)
        place(k) == 1 + Cardinality({ j \in 1..Len(s) : j # k /\ before(j, k) })
    IN [r \in 1..Len(s) |-> s[CHOOSE k \in 1..Len(s) : place(k) = r]]

\* A slip: reverse=True forgotten, so the sort is ascending.
RECURSIVE InsertAsc(_, _)
InsertAsc(s, c) ==
    IF s = <<>> THEN <<c>>
    ELSE IF RatGreater(Head(s).probability, c.probability) THEN <<c>> \o s
    ELSE <<Head(s)>> \o InsertAsc(Tail(s), c)

RECURSIVE SortAsc(_)
SortAsc(s) ==
    IF s = <<>> THEN <<>>
    ELSE InsertAsc(SortAsc(SubSeq(s, 1, Len(s) - 1)), s[Len(s)])

top_candidates_ascending(s) ==
    SubSeq(SortAsc(s), 1, IF Len(s) < TopCandidates THEN Len(s) ELSE TopCandidates)

\* end_receivers.sort(key=lambda x: x[1], reverse=True); end_receivers[:10]
top_candidates(s) == SubSeq(SortDesc(s), 1, IF Len(s) < TopCandidates THEN Len(s) ELSE TopCandidates)

\* The pending dfs calls are frames: entered is FALSE for a call that has not
\* run its first line yet; todo holds the successors its for loop has still to
\* go through.
Frame(node, depth, p, entered, todo) ==
    [node |-> node, depth |-> depth, path_probability |-> p, entered |-> entered,
     todo |-> todo]

Candidate(node, p) == [address |-> node, probability |-> p]

\* ------------------------------------------------------------- idle state

\* no upstream answer yet
NoUpstream ==
    [summary |-> [kind |-> "none", status |-> "", tx_count |-> 0, result |-> <<>>],
     response |-> [kind |-> "none", status |-> "", tx_count |-> 0, result |-> <<>>]]

\* the threads that may call analyze_transaction_flow on the shared tracker
Threads == {1, 2}

\* the local variables of a thread that is not inside a call
ThreadIdle ==
    [pc |-> "idle", address |-> None, currency_arg |-> "", currency |-> "",
     steps |-> <<>>, calls |-> <<>>, transactions |-> <<>>, i |-> 0,
     graph |-> EmptyGraph, start_address |-> None, max_depth |-> 0, stack |-> <<>>,
     visited |-> {}, end_receivers |-> <<>>, result |-> NoResult]

Idle ==
    /\ pc = "idle"
    /\ address = None
    /\ currency_arg = ""
    /\ currency = ""
    /\ steps = <<>>
    /\ calls = <<>>
    /\ transactions = <<>>
    /\ i = 0
    /\ graph = EmptyGraph
    /\ start_address = None
    /\ max_depth = 0
    /\ stack = <<>>
    /\ visited = {}
    /\ end_receivers = <<>>
    /\ result = NoResult
    /\ again = ""
    /\ max_transactions_arg = 0
    /\ upstream = NoUpstream
    /\ threads = [running |-> 1, saved |-> [t \in Threads |-> ThreadIdle]]

\* The tracker after construction; the API key comes from the environment.
Init ==
    /\ Idle
    /\ etherscan_api_key \in BOOLEAN

\* ---------------------------------------------- find_end_receivers: steps

Raised(exception) == [kind |-> "raised", exception |-> exception]

\* find_end_receivers(G, s, d) up to the call dfs(start_address, 0, 1.0)
find_end_receivers_begin(G, s, d) ==
    /\ graph' = G
    /\ start_address' = s
    /\ max_depth' = d
    /\ end_receivers' = <<>>
    /\ visited' = {}
    /\ stack' = <<Frame(s, 0, One, FALSE, <<>>)>>
    /\ pc' = "dfs"

\* dfs: if depth > max_depth or node in visited: return
DfsReturnEarly ==
    /\ pc = "dfs" /\ stack # <<>> /\ ~Head(stack).entered
    /\ BeyondDepth(Head(stack).depth, max_depth) \/ Head(stack).node \in visited
    /\ stack' = Tail(stack)
    /\ UNCHANGED <<pc, address, currency_arg, currency, steps, etherscan_api_key, max_transactions_arg, upstream, threads, calls, transactions, i,
                   graph, start_address, max_depth, visited, end_receivers, result, again>>

\* dfs: graph.successors(node) raises NetworkXError for a node that is not in
\* the graph; nothing catches it
DfsRaise ==
    /\ pc = "dfs" /\ stack # <<>> /\ ~Head(stack).entered
    /\ ~(BeyondDepth(Head(stack).depth, max_depth) \/ Head(stack).node \in visited)
    /\ ~HasNode(graph, Head(stack).node)
    /\ visited' = visited \cup {Head(stack).node}
    /\ stack' = <<>>
    /\ result' = Raised("NetworkXError")
    /\ pc' = "raised"
    /\ UNCHANGED <<address, currency_arg, currency, steps, etherscan_api_key, max_transactions_arg, upstream, threads, calls, transactions, i,
                   graph, start_address, max_depth, end_receivers, again>>

\* a dfs that records a node without successors but does not add it to visited
DfsRecordWithoutMarking ==
    /\ pc = "dfs" /\ stack # <<>> /\ ~Head(stack).entered
    /\ ~(Head(stack).depth > max_depth \/ Head(stack).node \in visited)
    /\ \E k \in 1..Len(graph.nodes) : graph.nodes[k].id = Head(stack).node
    /\ \A e \in 1..Len(graph.edges) : graph.edges[e].u # Head(stack).node
    /\ end_receivers' = Append(end_receivers,
                               [address |-> Head(stack).node,
                                probability |-> Head(stack).path_probability])
    /\ stack' = Tail(stack)
    /\ UNCHANGED <<pc, address, currency_arg, currency, steps, etherscan_api_key, max_transactions_arg, upstream, threads, calls, transactions, i,
                   graph, start_address, max_depth, visited, result, again>>

\* dfs: a node without successors is appended to end_receivers
DfsRecord ==
    /\ pc = "dfs" /\ stack # <<>> /\ ~Head(stack).entered
    /\ ~(BeyondDepth(Head(stack).depth, max_depth) \/ Head(stack).node \in visited)
    /\ HasNode(graph, Head(stack).node)
    /\ successors(graph, Head(stack).node) = <<>>
    /\ visited' = visited \cup {Head(stack).node}
    /\ end_receivers' = Append(end_receivers,
                               Candidate(Head(stack).node, Head(stack).path_probability))
    /\ stack' = Tail(stack)
    /\ UNCHANGED <<pc, address, currency_arg, currency, steps, etherscan_api_key, max_transactions_arg, upstream, threads, calls, transactions, i,
                   graph, start_address, max_depth, result, again>>

\* a dfs that notes on the node of the graph that it has been visited
DfsExpandMarkingGraph ==
    /\ pc = "dfs" /\ stack # <<>> /\ ~Head(stack).entered
    /\ ~(Head(stack).depth > max_depth \/ Head(stack).node \in visited)
    /\ \E k \in 1..Len(graph.nodes) : graph.nodes[k].id = Head(stack).node
    /\ \E e \in 1..Len(graph.edges) : graph.edges[e].u = Head(stack).node
    /\ visited' = visited \cup {Head(stack).node}
    /\ graph' = [graph EXCEPT !.nodes =
                     [k \in 1..Len(graph.nodes) |->
                         IF graph.nodes[k].id = Head(stack).node
                         THEN [graph.nodes[k] EXCEPT !.currency = "visited"]
                         ELSE graph.nodes[k]]]
    /\ stack' = <<[Head(stack) EXCEPT !.entered = TRUE,
                                      !.todo = successors(graph, Head(stack).node)]>>
                 \o Tail(stack)
    /\ UNCHANGED <<pc, address, currency_arg, currency, steps, etherscan_api_key, max_transactions_arg, upstream, threads, calls, transactions, i,
                   start_address, max_depth, end_receivers, result, again>>

\* dfs: a node with successors starts its for loop
DfsExpand ==
    /\ pc = "dfs" /\ stack # <<>> /\ ~Head(stack).entered
    /\ ~(BeyondDepth(Head(stack).depth, max_depth) \/ Head(stack).node \in visited)
    /\ HasNode(graph, Head(stack).node)
    /\ successors(graph, Head(stack).node) # <<>>
    /\ visited' = visited \cup {Head(stack).node}
    /\ stack' = <<[Head(stack) EXCEPT !.entered = TRUE,
                                      !.todo = successors(graph, Head(stack).node)]>>
                 \o Tail(stack)
    /\ UNCHANGED <<pc, address, currency_arg, currency, steps, etherscan_api_key, max_transactions_arg, upstream, threads, calls, transactions, i,
                   graph, start_address, max_depth, end_receivers, result, again>>

\* a for loop that calls dfs on the first successor and never moves on to the next
DfsLoopWithoutAdvancing ==
    /\ pc = "dfs" /\ stack # <<>> /\ Head(stack).entered
    /\ Head(stack).todo # <<>>
    /\ stack' = << [node |-> Head(Head(stack).todo), depth |-> Head(stack).depth + 1,
                    path_probability |->
                        [num |-> 4 * Head(stack).path_probability.num,
                         den |-> 5 * Head(stack).path_probability.den],
                    entered |-> FALSE, todo |-> <<>>] >> \o stack
    /\ UNCHANGED <<pc, address, currency_arg, currency, steps, etherscan_api_key, max_transactions_arg, upstream, threads, calls, transactions, i,
                   graph, start_address, max_depth, visited, end_receivers, result, again>>

\* a for loop that calls dfs on the first successor only
DfsLoopFirstOnly ==
    /\ pc = "dfs" /\ stack # <<>> /\ Head(stack).entered
    /\ Head(stack).todo # <<>>
    /\ stack' = << [node |-> Head(Head(stack).todo), depth |-> Head(stack).depth + 1,
                    path_probability |->
                        [num |-> 4 * Head(stack).path_probability.num,
                         den |-> 5 * Head(stack).path_probability.den],
                    entered |-> FALSE, todo |-> <<>>],
                   [Head(stack) EXCEPT !.todo = <<>>] >> \o Tail(stack)
    /\ UNCHANGED <<pc, address, currency_arg, currency, steps, etherscan_api_key, max_transactions_arg, upstream, threads, calls, transactions, i,
                   graph, start_address, max_depth, visited, end_receivers, result, again>>

\* dfs: one iteration of the for loop, calling dfs on the successor
DfsLoop ==
    /\ pc = "dfs" /\ stack # <<>> /\ Head(stack).entered
    /\ Head(stack).todo # <<>>
    /\ LET f == Head(stack)
           successor == Head(f.todo)
           rest == <<[f EXCEPT !.todo = Tail(f.todo)]>> \o Tail(stack)
       IN stack' = IF get_edge_data(graph, f.node, successor)
                   THEN <<Frame(successor, f.depth + 1, Decay(f.path_probability),
                                FALSE, <<>>)>> \o rest
                   ELSE rest
    /\ UNCHANGED <<pc, address, currency_arg, currency, steps, etherscan_api_key, max_transactions_arg, upstream, threads, calls, transactions, i,
                   graph, start_address, max_depth, visited, end_receivers, result, again>>

\* dfs: the for loop is exhausted and the call returns
DfsLoopEnd ==
    /\ pc = "dfs" /\ stack # <<>> /\ Head(stack).entered
    /\ Head(stack).todo = <<>>
    /\ stack' = Tail(stack)
    /\ UNCHANGED <<pc, address, currency_arg, currency, steps, etherscan_api_key, max_transactions_arg, upstream, threads, calls, transactions, i,
                   graph, start_address, max_depth, visited, end_receivers, result, again>>

\* find_end_receivers after dfs returned: sort, keep the top candidates, return
find_end_receivers_return ==
    /\ pc = "dfs" /\ stack = <<>>
    /\ result' = [kind |-> "candidates", list |-> top_candidates(end_receivers)]
    /\ pc' = "ranked"
    /\ UNCHANGED <<address, currency_arg, currency, steps, etherscan_api_key, max_transactions_arg, upstream, threads, calls, transactions, i,
                   graph, start_address, max_depth, stack, visited, end_receivers, again>>

Dfs == DfsReturnEarly \/ DfsRaise \/ DfsRecord \/ DfsExpand \/ DfsLoop \/ DfsLoopEnd

\* --------------------------------------------------- specification: ranker

Digit == <<"0", "1", "2", "3", "4", "5", "6", "7", "8", "9">>

\* the address named by a letter and a number below 10
Node(letter, k) == <<letter, Digit[k + 1]>>

\* a well-formed transfer between two addresses
Transfer(from, to) == Transaction(<<"h">>, from, to, 1000, Amount(1, 0), "ETH", 0)

SmallAddrs == { Node("n", k) : k \in 0..2 }

SmallTransfers == { Transfer(f, t) : f \in SmallAddrs, t \in SmallAddrs \cup {None} }

RECURSIVE ListsUpTo(_, _)
ListsUpTo(S, n) ==
    IF n = 0 THEN { <<>> }
    ELSE ListsUpTo(S, n - 1)
         \cup { Append(l, x) : l \in { m \in ListsUpTo(S, n - 1) : Len(m) = n - 1 }, x \in S }

\* p0 -> p1 -> ... -> pk; for k = 0 the lone node p0
PathList(k) ==
    IF k = 0 THEN << Transfer(Node("p", 0), None) >>
    ELSE [j \in 1..k |-> Transfer(Node("p", j - 1), Node("p", j))]

\* a0 -> b0, then b0 -> m1 .. mg, then a0 -> l1 .. lf: g sinks two hops and
\* f sinks one hop from a0, the farther ones met first
FanList(f, g) ==
    << Transfer(Node("a", 0), Node("b", 0)) >>
    \o [j \in 1..g |-> Transfer(Node("b", 0), Node("m", j))]
    \o [j \in 1..f |-> Transfer(Node("a", 0), Node("l", j))]

\* s0 -> s1 -> ... -> sk -> t0 and then s0 -> sk: the sink t0 is k + 1 hops
\* from s0 along the chain, met first, and two hops along the last edge
ShortcutList(k) ==
    [j \in 1..k |-> Transfer(Node("s", j - 1), Node("s", j))]
    \o << Transfer(Node("s", k), Node("t", 0)), Transfer(Node("s", 0), Node("s", k)) >>

\* The graphs and start addresses find_end_receivers is exercised on: every
\* graph built from at most MaxTx transfers among three addresses (a transfer
\* without a to-address leaves a node without an edge), from a start that may
\* or may not be in it; every simple path of up to MaxDepth + 1 hops; every
\* fan; every chain of 2 to MaxDepth hops with a shortcut to its last node.
RankCases ==
    { [graph |-> build_transaction_tree(l), start |-> s] :
        l \in ListsUpTo(SmallTransfers, MaxTx), s \in SmallAddrs \cup {Node("n", 3)} }
    \cup { [graph |-> build_transaction_tree(PathList(k)), start |-> Node("p", 0)] :
             k \in 0..(MaxDepth + 1) }
    \cup { [graph |-> build_transaction_tree(FanList(f, g)), start |-> Node("a", 0)] :
             f \in 0..MaxFan, g \in 0..MaxFan }
    \cup { [graph |-> build_transaction_tree(ShortcutList(k)), start |-> Node("s", 0)] :
             k \in 2..MaxDepth }

\* tracker.find_end_receivers(graph, start_address, max_depth)
FindEndReceivers ==
    /\ pc = "idle"
    /\ \E c \in RankCases, d \in 0..MaxDepth :
          find_end_receivers_begin(c.graph, c.start, d)
    /\ UNCHANGED <<address, currency_arg, currency, steps, etherscan_api_key, max_transactions_arg, upstream, threads, calls, transactions, i,
                   result, again>>

NextRank == FindEndReceivers \/ Dfs \/ find_end_receivers_return

SpecRank == Init /\ [][NextRank]_vars

\* find_end_receivers is an ordinary synchronous call: once it is called the
\* interpreter keeps executing it until it returns or raises
SpecRankFair == SpecRank /\ WF_vars(Dfs \/ find_end_receivers_return)

\* ------------------------------------------------- specification: classifier

\* tracker.detect_currency(a)
DetectCurrency ==
    /\ pc = "idle"
    /\ \E a \in ClassifyAddresses :
          /\ address' = a
          /\ result' = [kind |-> "tag", tag |-> detect_currency(a)]
    /\ pc' = "detected"
    /\ UNCHANGED <<currency_arg, currency, steps, etherscan_api_key, max_transactions_arg, upstream, threads, calls, transactions, i, graph,
                   start_address, max_depth, stack, visited, end_receivers, again>>

\* a second tracker.detect_currency call on the same address
DetectCurrencyAgain ==
    /\ pc = "detected"
    /\ again' = detect_currency(address)
    /\ pc' = "detected_again"
    /\ UNCHANGED <<address, currency_arg, currency, steps, etherscan_api_key, max_transactions_arg, upstream, threads, calls, transactions, i, graph,
                   start_address, max_depth, stack, visited, end_receivers, result>>

NextClassify == DetectCurrency \/ DetectCurrencyAgain

SpecClassify == Init /\ [][NextClassify]_vars

\* ------------------------------------------ specification: analyze (Spec)

Supported == {"ETH", "BTC", "TRX"}

Hash(k) == Node("h", k)

EthX == <<"0", "x", "a", "b">>
EthXChecksum == <<"0", "x", "A", "b">>
EthY == <<"0", "x", "c", "d">>
EthZ == <<"0", "x", "e", "f">>
BtcB == <<"1", "B", "t", "c">>
TronT == Pad(<<"T", "R">>, TronAddressLength)
TronY == Pad(<<"T", "Y">>, TronAddressLength)
Unrecognised == <<"z", "z">>

AnalyzeAddresses == {EthX, EthXChecksum, BtcB, TronT, Unrecognised, <<>>}

\* "" stands for a call without the currency argument
CurrencyArguments == {"", "ETH", "BTC", "TRX", "XRP"}

Response(kind, status, tx_count, records) ==
    [kind |-> kind, status |-> status, tx_count |-> tx_count, result |-> records]

Failures ==
    { Response(k, "", 0, <<>>) : k \in {"network_error", "http_error", "bad_json"} }

EthRecord(hash, from, to, value, timeStamp) ==
    [dict |-> TRUE, hash |-> hash, from |-> from, to |-> to, value |-> value,
     timeStamp |-> timeStamp, blockNumber |-> 1, gasPrice |-> 1, gasUsed |-> 1]

\* The explorer reports addresses in lower case.  The records: three
\* transfers touching EthX, one beyond it, one with a null to, one whose
\* value is no number, and an entry that is no JSON object.
EthRecords ==
    { EthRecord(Hash(1), EthX, EthY, 3, 1),
      EthRecord(Hash(2), EthY, EthX, 5, 2),
      EthRecord(Hash(3), EthX, EthX, 7, 3),
      EthRecord(Hash(4), EthY, EthZ, 2, 4),
      EthRecord(Hash(5), EthX, None, 1, 5),
      EthRecord(Hash(6), EthX, EthY, -1, 6),
      [EthRecord(Missing, Missing, Missing, -1, -1) EXCEPT !.dict = FALSE] }

EthResponses ==
    Failures
    \cup { Response("ok", "0", 0, <<>>) }
    \cup { Response("ok", "1", 0, l) : l \in ListsUpTo(EthRecords, MaxRecords) }

BtcRecord(txid, block_time, block_height) ==
    [dict |-> TRUE, txid |-> txid, block_time |-> block_time,
     block_height |-> block_height]

\* two confirmed transactions, an unconfirmed one, and an entry that is no
\* JSON object
BtcRecords ==
    { BtcRecord(Hash(1), 10, 1),
      BtcRecord(Hash(2), 20, 2),
      BtcRecord(Hash(3), 0, 0),
      [BtcRecord(<<>>, 0, 0) EXCEPT !.dict = FALSE] }

BtcSummaries ==
    Failures \cup { Response("ok", "", n, <<>>) : n \in {0, 2} }

BtcResponses ==
    Failures \cup { Response("ok", "", 0, l) : l \in ListsUpTo(BtcRecords, MaxRecords) }

TronRecord(type, txID, from, to, value, block_timestamp) ==
    [dict |-> TRUE, type |-> type, txID |-> txID, from |-> from, to |-> to,
     value |-> value, block_timestamp |-> block_timestamp, block |-> 1]

\* two transfers touching TronT, an entry of another type, a transfer without
\* txID, a transfer without from and to, and an entry that is no JSON object
TronRecords ==
    { TronRecord("Transfer", Hash(1), TronT, TronY, 4, 1000),
      TronRecord("Transfer", Hash(2), TronY, TronT, 6, 2500),
      TronRecord("TriggerSmartContract", Hash(3), TronT, TronY, 1, 3000),
      TronRecord("Transfer", Missing, TronT, TronY, 1, 4000),
      TronRecord("Transfer", Hash(5), <<>>, <<>>, 2, 5000),
      [TronRecord("", Missing, <<>>, <<>>, 0, 0) EXCEPT !.dict = FALSE] }

TronResponses ==
    Failures \cup { Response("ok", "", 0, l) : l \in ListsUpTo(TronRecords, MaxRecords) }

\* A slip: the classifier is consulted and decides also when a currency is
\* supplied.
AnalyzeCallAlwaysDetecting ==
    /\ pc = "idle"
    /\ \E a \in AnalyzeAddresses, c \in CurrencyArguments :
          /\ address' = a
          /\ currency_arg' = c
          /\ currency' = detect_currency(a)
          /\ steps' = <<"detect_currency">>
    /\ pc' = "fetch"
    /\ UNCHANGED <<etherscan_api_key, max_transactions_arg, upstream, threads, calls, transactions, i, graph, start_address,
                   max_depth, stack, visited, end_receivers, result, again>>

\* tracker.analyze_transaction_flow(a, c): the currency is resolved
AnalyzeCall ==
    /\ pc = "idle"
    /\ \E a \in AnalyzeAddresses, c \in CurrencyArguments :
          /\ address' = a
          /\ currency_arg' = c
          /\ currency' = IF c = "" THEN detect_currency(a) ELSE c
          /\ steps' = IF c = "" THEN <<"detect_currency">> ELSE <<>>
    /\ pc' = "fetch"
    /\ UNCHANGED <<etherscan_api_key, max_transactions_arg, upstream, threads, calls, transactions, i, graph, start_address,
                   max_depth, stack, visited, end_receivers, result, again>>

\* the adapter returned r
AdapterReturned(name, r) ==
    /\ transactions' = r.transactions
    /\ calls' = calls \o r.calls
    /\ steps' = Append(steps, name)
    /\ pc' = "fetched"
    /\ UNCHANGED <<address, currency_arg, currency, etherscan_api_key, max_transactions_arg, upstream, threads, i, graph,
                   start_address, max_depth, stack, visited, end_receivers, result, again>>

\* A slip: the Ethereum adapter as the fallback of the dispatch.
AnalyzeFetchEthereumAsDefault ==
    /\ pc = "fetch"
    /\ currency \notin {"BTC", "TRX"}
    /\ \E resp \in EthResponses :
          AdapterReturned("get_ethereum_transactions",
                          get_ethereum_transactions(etherscan_api_key, address,
                                                    DefaultMaxTransactions, resp))

\* currency == 'ETH': transactions = self.get_ethereum_transactions(address)
AnalyzeFetchEthereum ==
    /\ pc = "fetch"
    /\ currency = "ETH"
    /\ \E resp \in EthResponses :
          AdapterReturned("get_ethereum_transactions",
                          get_ethereum_transactions(etherscan_api_key, address,
                                                    DefaultMaxTransactions, resp))

\* A slip: the Bitcoin adapter also probed when another adapter found nothing.
AnalyzeFetchBitcoinAsFallback ==
    /\ \/ pc = "fetch" /\ currency = "BTC"
       \/ pc = "fetched" /\ transactions = <<>> /\ currency # "BTC"
    /\ \E summary \in BtcSummaries, resp \in BtcResponses :
          AdapterReturned("get_bitcoin_transactions",
                          get_bitcoin_transactions(address, DefaultMaxTransactions,
                                                   summary, resp))

\* currency == 'BTC': transactions = self.get_bitcoin_transactions(address)
AnalyzeFetchBitcoin ==
    /\ pc = "fetch"
    /\ currency = "BTC"
    /\ \E summary \in BtcSummaries, resp \in BtcResponses :
          AdapterReturned("get_bitcoin_transactions",
                          get_bitcoin_transactions(address, DefaultMaxTransactions,
                                                   summary, resp))

\* currency == 'TRX': transactions = self.get_tron_transactions(address)
AnalyzeFetchTron ==
    /\ pc = "fetch"
    /\ currency = "TRX"
    /\ \E resp \in TronResponses :
          AdapterReturned("get_tron_transactions",
                          get_tron_transactions(address, DefaultMaxTransactions, resp))

ErrorResult(message) == [kind |-> "error", error |-> message]

\* else: return {"error": f"Unsupported currency: {currency}"}
AnalyzeUnsupported ==
    /\ pc = "fetch"
    /\ currency \notin Supported
    /\ result' = ErrorResult("Unsupported currency")
    /\ pc' = "done"
    /\ UNCHANGED <<address, currency_arg, currency, steps, etherscan_api_key, max_transactions_arg, upstream, threads, calls,
                   transactions, i, graph, start_address, max_depth, stack, visited,
                   end_receivers, again>>

\* A slip: the empty list is not turned into an error and goes on to the build.
AnalyzeNotFoundGoesOn ==
    /\ pc = "fetched"
    /\ transactions = <<>>
    /\ steps' = Append(steps, "build_transaction_tree")
    /\ pc' = "build"
    /\ UNCHANGED <<address, currency_arg, currency, etherscan_api_key, max_transactions_arg, upstream, threads, calls,
                   transactions, i, graph, start_address, max_depth, stack, visited,
                   end_receivers, result, again>>

\* if not transactions: return {"error": "No transactions found"}
AnalyzeNotFound ==
    /\ pc = "fetched"
    /\ transactions = <<>>
    /\ result' = ErrorResult("No transactions found")
    /\ pc' = "done"
    /\ UNCHANGED <<address, currency_arg, currency, steps, etherscan_api_key, max_transactions_arg, upstream, threads, calls,
                   transactions, i, graph, start_address, max_depth, stack, visited,
                   end_receivers, again>>

\* graph = self.build_transaction_tree(transactions): G = nx.DiGraph()
AnalyzeBuild ==
    /\ pc = "fetched"
    /\ transactions # <<>>
    /\ graph' = EmptyGraph
    /\ i' = 0
    /\ steps' = Append(steps, "build_transaction_tree")
    /\ pc' = "build"
    /\ UNCHANGED <<address, currency_arg, currency, etherscan_api_key, max_transactions_arg, upstream, threads, calls,
                   transactions, start_address, max_depth, stack, visited,
                   end_receivers, result, again>>

\* build_transaction_tree: one iteration of the loop that does not raise
BuildStep ==
    /\ pc = "build"
    /\ i < Len(transactions)
    /\ ~build_step(graph, transactions[i + 1]).raised
    /\ graph' = build_step(graph, transactions[i + 1]).graph
    /\ i' = i + 1
    /\ UNCHANGED <<pc, address, currency_arg, currency, steps, etherscan_api_key, max_transactions_arg, upstream, threads, calls,
                   transactions, start_address, max_depth, stack, visited,
                   end_receivers, result, again>>

\* end_receivers = self.find_end_receivers(graph, address)
AnalyzeRank ==
    /\ pc = "build"
    /\ i = Len(transactions)
    /\ find_end_receivers_begin(graph, address, DefaultMaxDepth)
    /\ steps' = Append(steps, "find_end_receivers")
    /\ UNCHANGED <<address, currency_arg, currency, etherscan_api_key, max_transactions_arg, upstream, threads, calls,
                   transactions, i, result, again>>

\* sum(1 for tx in transactions if tx.to_address == address)
CountIncoming(txs, addr) == Cardinality({ k \in 1..Len(txs) : txs[k].to_address = addr })

\* sum(1 for tx in transactions if tx.from_address == address)
CountOutgoing(txs, addr) == Cardinality({ k \in 1..Len(txs) : txs[k].from_address = addr })

RECURSIVE SumAmounts(_)
\* sum(tx.amount for tx in transactions) of a list that is not empty
SumAmounts(txs) ==
    IF Len(txs) = 1 THEN txs[1].amount
    ELSE AmountAdd(SumAmounts(SubSeq(txs, 1, Len(txs) - 1)), txs[Len(txs)].amount)

\* A slip: the volume summed over the outgoing transactions only.
analysis_outgoing_volume(addr, cur, txs, G, top) ==
    LET from_me(tx) == tx.from_address = addr
        outgoing == SelectSeq(txs, from_me)
    IN [kind |-> "analysis",
        address |-> addr,
        currency |-> cur,
        total_transactions |-> Len(txs),
        incoming_transactions |-> CountIncoming(txs, addr),
        outgoing_transactions |-> CountOutgoing(txs, addr),
        total_volume |-> IF outgoing = <<>> THEN Amount(0, 0) ELSE SumAmounts(outgoing),
        end_receivers |-> top,
        transaction_tree |-> G,
        transactions |-> txs]

\* the statistics and the returned dictionary
analysis(addr, cur, txs, G, top) ==
    [kind |-> "analysis",
        address |-> addr,
        currency |-> cur,
        total_transactions |-> Len(txs),
        incoming_transactions |-> CountIncoming(txs, addr),
        outgoing_transactions |-> CountOutgoing(txs, addr),
        total_volume |-> SumAmounts(txs),
        end_receivers |-> top,
        transaction_tree |-> G,
        transactions |-> txs]

\* analyze_transaction_flow after find_end_receivers returned
AnalyzeAggregate ==
    /\ pc = "ranked"
    /\ result' = analysis(address, currency, transactions, graph, result.list)
    /\ steps' = Append(steps, "aggregate")
    /\ pc' = "done"
    /\ UNCHANGED <<address, currency_arg, currency, etherscan_api_key, max_transactions_arg, upstream, threads, calls,
                   transactions, i, graph, start_address, max_depth, stack, visited,
                   end_receivers, again>>

Next ==
    \/ AnalyzeCall
    \/ AnalyzeFetchEthereum
    \/ AnalyzeFetchBitcoin
    \/ AnalyzeFetchTron
    \/ AnalyzeUnsupported
    \/ AnalyzeNotFound
    \/ AnalyzeBuild
    \/ BuildStep
    \/ AnalyzeRank
    \/ Dfs
    \/ find_end_receivers_return
    \/ AnalyzeAggregate

Spec == Init /\ [][Next]_vars

\* ------------------------------------- specification: build_transaction_tree

\* The transactions build_transaction_tree is exercised on, all instances of
\* the Transaction dataclass (an absent value is None): transfers among four
\* addresses at three points in time, two of them over the same pair, one
\* from an address to itself, one without hash, one without from_address and
\* one without to_address.
BuildTransactions ==
    { Transaction(Hash(1), Node("n", 0), Node("n", 1), 2000, Amount(1, 0), "ETH", 1),
      Transaction(Hash(2), Node("n", 0), Node("n", 1), 1000, Amount(2, 0), "ETH", 2),
      Transaction(Hash(3), Node("n", 1), Node("n", 2), 3000, Amount(3, 0), "ETH", 3),
      Transaction(Hash(4), Node("n", 2), Node("n", 3), 1000, Amount(4, 0), "ETH", 4),
      Transaction(Hash(5), Node("n", 2), Node("n", 0), 2000, Amount(5, 0), "ETH", 5),
      Transaction(Hash(6), Node("n", 1), Node("n", 1), 2000, Amount(6, 0), "ETH", 6),
      Transaction(None, Node("n", 0), Node("n", 1), 3000, Amount(7, 0), "ETH", 7),
      Transaction(Hash(8), None, Node("n", 1), 1000, Amount(8, 0), "ETH", 8),
      Transaction(Hash(9), Node("n", 0), None, 3000, Amount(9, 0), "ETH", 9) }

\* tracker.build_transaction_tree(l): G = nx.DiGraph()
BuildTransactionTree ==
    /\ pc = "idle"
    /\ \E l \in ListsUpTo(BuildTransactions, MaxTx) : transactions' = l
    /\ graph' = EmptyGraph
    /\ i' = 0
    /\ pc' = "build"
    /\ UNCHANGED <<address, currency_arg, currency, steps, etherscan_api_key,
                   max_transactions_arg, upstream, threads, calls, start_address,
                   max_depth, stack, visited, end_receivers, result, again>>

\* build_transaction_tree: return G
BuildReturn ==
    /\ pc = "build"
    /\ i = Len(transactions)
    /\ result' = [kind |-> "graph", graph |-> graph]
    /\ pc' = "built"
    /\ UNCHANGED <<address, currency_arg, currency, steps, etherscan_api_key,
                   max_transactions_arg, upstream, threads, calls, transactions, i,
                   graph, start_address, max_depth, stack, visited, end_receivers,
                   again>>

NextBuild == BuildTransactionTree \/ BuildStep \/ BuildReturn

SpecBuild == Init /\ [][NextBuild]_vars

\* ------------------------------------------ specification: chain adapters

\* the adapter called on its own returned r
FetchReturned(name, a, limit, summary, resp, r) ==
    /\ pc = "idle"
    /\ address' = a
    /\ max_transactions_arg' = limit
    /\ upstream' = [summary |-> summary, response |-> resp]
    /\ transactions' = r.transactions
    /\ calls' = r.calls
    /\ steps' = <<name>>
    /\ result' = [kind |-> "transactions", list |-> r.transactions]
    /\ pc' = "returned"
    /\ UNCHANGED <<currency_arg, currency, etherscan_api_key, threads, i, graph,
                   start_address, max_depth, stack, visited, end_receivers, again>>

\* tracker.get_ethereum_transactions(EthX, limit)
FetchEthereum ==
    /\ pc = "idle"
    /\ \E limit \in 0..MaxRecords, resp \in EthResponses :
        FetchReturned("get_ethereum_transactions", EthX, limit, NoUpstream.summary, resp,
                      get_ethereum_transactions(etherscan_api_key, EthX, limit, resp))

\* tracker.get_bitcoin_transactions(BtcB, limit)
FetchBitcoin ==
    /\ pc = "idle"
    /\ \E limit \in 0..MaxRecords, summary \in BtcSummaries, resp \in BtcResponses :
        FetchReturned("get_bitcoin_transactions", BtcB, limit, summary, resp,
                      get_bitcoin_transactions(BtcB, limit, summary, resp))

\* tracker.get_tron_transactions(TronT, limit)
FetchTron ==
    /\ pc = "idle"
    /\ \E limit \in 0..MaxRecords, resp \in TronResponses :
        FetchReturned("get_tron_transactions", TronT, limit, NoUpstream.summary, resp,
                      get_tron_transactions(TronT, limit, resp))

NextFetch == FetchEthereum \/ FetchBitcoin \/ FetchTron

SpecFetch == Init /\ [][NextFetch]_vars

\* ------------------------------- specification: two threads, one tracker
\* src/app.py keeps one tracker for all requests, so two request threads can
\* be inside analyze_transaction_flow at once.  The variables of a call
\* (address, currency, transactions, graph, visited, end_receivers, ...) are
\* local variables of analyze_transaction_flow, build_transaction_tree and
\* find_end_receivers, so each thread has its own; the tracker's attributes
\* are shared.  The interpreter may switch threads between any two steps.

\* the local variables of the running thread
Locals ==
    [pc |-> pc, address |-> address, currency_arg |-> currency_arg,
     currency |-> currency, steps |-> steps, calls |-> calls,
     transactions |-> transactions, i |-> i, graph |-> graph,
     start_address |-> start_address, max_depth |-> max_depth, stack |-> stack,
     visited |-> visited, end_receivers |-> end_receivers, result |-> result]

\* A slip: visited kept as an attribute of the tracker instead of a local
\* variable of find_end_receivers, so that all threads use the same set.
SwitchSharingVisited(t) ==
    /\ t # threads.running
    /\ threads' = [running |-> t,
                   saved |-> [threads.saved EXCEPT ![threads.running] = Locals,
                                                   ![t] = ThreadIdle]]
    /\ pc' = threads.saved[t].pc
    /\ address' = threads.saved[t].address
    /\ currency_arg' = threads.saved[t].currency_arg
    /\ currency' = threads.saved[t].currency
    /\ steps' = threads.saved[t].steps
    /\ calls' = threads.saved[t].calls
    /\ transactions' = threads.saved[t].transactions
    /\ i' = threads.saved[t].i
    /\ graph' = threads.saved[t].graph
    /\ start_address' = threads.saved[t].start_address
    /\ max_depth' = threads.saved[t].max_depth
    /\ stack' = threads.saved[t].stack
    /\ end_receivers' = threads.saved[t].end_receivers
    /\ result' = threads.saved[t].result
    /\ UNCHANGED <<visited, etherscan_api_key, max_transactions_arg, upstream, again>>

\* the interpreter switches from the running thread to thread t: the running
\* thread's local variables are set aside and those of t are current again
Switch(t) ==
    /\ t # threads.running
    /\ threads' = [running |-> t,
                   saved |-> [threads.saved EXCEPT ![threads.running] = Locals,
                                                   ![t] = ThreadIdle]]
    /\ pc' = threads.saved[t].pc
    /\ address' = threads.saved[t].address
    /\ currency_arg' = threads.saved[t].currency_arg
    /\ currency' = threads.saved[t].currency
    /\ steps' = threads.saved[t].steps
    /\ calls' = threads.saved[t].calls
    /\ transactions' = threads.saved[t].transactions
    /\ i' = threads.saved[t].i
    /\ graph' = threads.saved[t].graph
    /\ start_address' = threads.saved[t].start_address
    /\ max_depth' = threads.saved[t].max_depth
    /\ stack' = threads.saved[t].stack
    /\ visited' = threads.saved[t].visited
    /\ end_receivers' = threads.saved[t].end_receivers
    /\ result' = threads.saved[t].result
    /\ UNCHANGED <<etherscan_api_key, max_transactions_arg, upstream, again>>

\* The histories the explorer answers with when two threads run: a cycle
\* EthX -> EthY -> EthX with a way out to EthZ, a history that does not touch
\* the queried address, and no history.
ConcurrentHistories ==
    { << EthTransaction(EthRecord(Hash(1), EthX, EthY, 3, 1)),
         EthTransaction(EthRecord(Hash(2), EthY, EthX, 5, 2)),
         EthTransaction(EthRecord(Hash(4), EthY, EthZ, 2, 4)) >>,
      << EthTransaction(EthRecord(Hash(4), EthY, EthZ, 2, 4)) >>,
      << >> }

\* the web layer calls tracker.analyze_transaction_flow(address)
ConcurrentCall ==
    /\ AnalyzeCall
    /\ address' = EthX
    /\ currency_arg' = ""

ConcurrentFetch ==
    /\ AnalyzeFetchEthereum
    /\ transactions' \in ConcurrentHistories
    /\ \A k \in 1..Len(calls') : calls'[k].outcome = "ok"

NextConcurrent ==
    \/ ConcurrentCall
    \/ ConcurrentFetch
    \/ AnalyzeNotFound
    \/ AnalyzeBuild
    \/ BuildStep
    \/ AnalyzeRank
    \/ Dfs
    \/ find_end_receivers_return
    \/ AnalyzeAggregate
    \/ \E t \in Threads : Switch(t)

SpecConcurrent == Init /\ [][NextConcurrent]_vars

\* =================================================================== claims

\* -------------------------------------------------------------------- C1

\* the address has the prefix, whatever the case of its letters
HasPrefixAnyCase(a, prefix) ==
    /\ Len(a) >= Len(prefix)
    /\ \A k \in 1..Len(prefix) : a[k] \in {prefix[k], UpperChar(prefix[k])}

RuleTags == <<"ETH", "BTC", "TRX", "ADA", "ATOM", "XRP", "XLM", "UNKNOWN">>

RuleMatches(n, a) ==
    CASE n = 1 -> HasPrefixAnyCase(a, <<"0","x">>)
      [] n = 2 -> \/ HasPrefixAnyCase(a, <<"b","c","1">>)
                  \/ HasPrefixAnyCase(a, <<"1">>)
                  \/ HasPrefixAnyCase(a, <<"3">>)
      [] n = 3 -> HasPrefixAnyCase(a, <<"t">>) /\ Len(a) = 34
      [] n = 4 -> HasPrefixAnyCase(a, <<"a","d","d","r">>)
      [] n = 5 -> HasPrefixAnyCase(a, <<"c","o","s","m","o","s">>)
      [] n = 6 -> HasPrefixAnyCase(a, <<"r">>)
      [] n = 7 -> HasPrefixAnyCase(a, <<"g">>)
      [] OTHER -> TRUE

FirstRule(a) ==
    CHOOSE n \in 1..8 : RuleMatches(n, a) /\ \A m \in 1..(n - 1) : ~RuleMatches(m, a)

\* C1: detect_currency returns, for every address, the tag of the first rule
\* of the fixed rule order that matches it case-insensitively (UNKNOWN when
\* none does), the same tag on a second call, and UNKNOWN for an address that
\* starts with t or T and is not 34 characters long.
C1_Classify ==
    pc \in {"detected", "detected_again"} =>
        /\ result.kind = "tag"
        /\ result.tag \in Tags
        /\ result.tag = RuleTags[FirstRule(address)]
        /\ pc = "detected_again" => again = result.tag
        /\ (HasPrefixAnyCase(address, <<"t">>) /\ Len(address) # 34)
               => result.tag = "UNKNOWN"

C1_Witness ==
    /\ pc = "detected_again"
    /\ Len(address) = 35
    /\ address[1] = "T"
    /\ result.tag = "UNKNOWN"
    /\ again = "UNKNOWN"

\* -------------------------------------------------------------------- C6

Finished == pc \in {"ranked", "raised"}

\* C6: the list find_end_receivers returns has at most 10 candidates and its
\* probabilities never increase from one candidate to the next.
C6_TopTenNonIncreasing ==
    pc = "ranked" =>
        /\ Len(result.list) <= 10
        /\ \A k \in 1..(Len(result.list) - 1) :
              ~RatGreater(result.list[k + 1].probability, result.list[k].probability)

C6_Witness ==
    /\ pc = "ranked"
    /\ Len(end_receivers) > 10
    /\ Len(result.list) = 10
    /\ RatGreater(end_receivers[Len(end_receivers)].probability,
                  end_receivers[1].probability)
    /\ RatGreater(result.list[1].probability, result.list[10].probability)

\* -------------------------------------------------------------------- C7

OutDegree(G, n) == Cardinality({ k \in 1..Len(G.edges) : G.edges[k].u = n })

InDegree(G, n) == Cardinality({ k \in 1..Len(G.edges) : G.edges[k].v = n })

\* C7: from a start address that is a node of the graph without outgoing
\* edges, find_end_receivers returns exactly [(start, 1.0)], whatever
\* max_depth >= 0.
C7_StartIsSink ==
    (Finished /\ HasNode(graph, start_address) /\ OutDegree(graph, start_address) = 0)
        => /\ pc = "ranked"
           /\ result.list = << [address |-> start_address, probability |-> Rat(1, 1)] >>

C7_Witness ==
    /\ pc = "ranked"
    /\ max_depth = 0
    /\ HasNode(graph, start_address)
    /\ OutDegree(graph, start_address) = 0
    /\ InDegree(graph, start_address) > 0
    /\ Len(result.list) = 1

\* -------------------------------------------------------------------- C8

\* C8: from a start address that is not a node of the graph,
\* find_end_receivers returns an empty candidate list and raises no error.
C8_AbsentStartEmpty ==
    (Finished /\ ~HasNode(graph, start_address))
        => /\ pc = "ranked"
           /\ result.list = <<>>

\* -------------------------------------------------------------------- C9

RECURSIVE Pow(_, _)
Pow(b, k) == IF k = 0 THEN 1 ELSE b * Pow(b, k - 1)

\* 0.8 ^ k
DecayPower(k) == Rat(Pow(4, k), Pow(5, k))

\* the nodes a walk of exactly k hops from s ends in
RECURSIVE EndsOfWalks(_, _, _)
EndsOfWalks(G, s, k) ==
    IF k = 0 THEN {s}
    ELSE { n \in NodeIds(G) : \E u \in EndsOfWalks(G, s, k - 1) : HasEdge(G, u, n) }

\* the nodes met from s by following the only out-edge while there is one
RECURSIVE Follow(_, _, _)
Follow(G, n, seen) ==
    IF n \in seen \/ OutDegree(G, n) # 1 THEN <<n>>
    ELSE <<n>> \o Follow(G, successors(G, n)[1], seen \cup {n})

\* the graph is one simple path from s to a sink
IsSimplePath(G, s) ==
    /\ HasNode(G, s)
    /\ Len(G.edges) = Len(G.nodes) - 1
    /\ Len(Follow(G, s, {})) = Len(G.nodes)
    /\ OutDegree(G, Follow(G, s, {})[Len(G.nodes)]) = 0

Unsupported == [kind |-> "error", error |-> "Unsupported currency"]

NotFound == [kind |-> "error", error |-> "No transactions found"]

\* C2: analyze_transaction_flow ends in one of three outcomes returned as a
\* value (a full analysis, the unsupported-currency error, the
\* no-transactions error) and never raises an exception to its caller.
C2_ThreeOutcomesNoRaise ==
    /\ pc # "raised"
    /\ pc = "done" => (result.kind = "analysis" \/ result = Unsupported \/ result = NotFound)

\* -------------------------------------------------------------------- C3

AdapterNames ==
    {"get_ethereum_transactions", "get_bitcoin_transactions", "get_tron_transactions"}

AdapterRan == \E k \in 1..Len(steps) : steps[k] \in AdapterNames

\* C3: when the resolved currency is not ETH, BTC or TRX, analyze returns the
\* unsupported-currency error, and at no point of the invocation is an adapter
\* invoked or an upstream call made.
C3_UnsupportedFailsFast ==
    (pc # "idle" /\ currency \notin {"ETH", "BTC", "TRX"}) =>
        /\ ~AdapterRan
        /\ calls = <<>>
        /\ pc \in {"fetch", "done"}
        /\ pc = "done" => result = Unsupported

C3_Witness ==
    /\ pc = "done"
    /\ address = EthX
    /\ currency_arg = "XRP"
    /\ result = Unsupported
    /\ calls = <<>>

\* -------------------------------------------------------------------- C4

\* C4: when the adapter returns an empty list, analyze returns the not-found
\* error and neither builds a graph nor ranks; a full result is returned only
\* with at least one fetched transaction.
C4_EmptyIsNotFound ==
    /\ (AdapterRan /\ transactions = <<>>) =>
          /\ pc \in {"fetched", "done"}
          /\ pc = "done" => result = NotFound
          /\ \A k \in 1..Len(steps) :
                steps[k] \notin {"build_transaction_tree", "find_end_receivers"}
          /\ graph = EmptyGraph
          /\ visited = {}
    /\ (pc = "done" /\ result.kind = "analysis") =>
          /\ Len(transactions) >= 1
          /\ result.total_transactions >= 1

C4_Witness ==
    /\ pc = "done"
    /\ currency = "TRX"
    /\ Len(calls) = 1
    /\ calls[1].outcome = "ok"
    /\ transactions = <<>>
    /\ result = NotFound

\* -------------------------------------------------------------------- C5

\* an upstream call of the adapter failed at the transport level
TransportFailed == \E k \in 1..Len(calls) : calls[k].outcome # "ok"

RECURSIVE CountTo(_, _)
CountTo(txs, a) ==
    IF txs = <<>> THEN 0
    ELSE (IF Head(txs).to_address = a THEN 1 ELSE 0) + CountTo(Tail(txs), a)

RECURSIVE CountFrom(_, _)
CountFrom(txs, a) ==
    IF txs = <<>> THEN 0
    ELSE (IF Head(txs).from_address = a THEN 1 ELSE 0) + CountFrom(Tail(txs), a)

RECURSIVE SumMinorUnits(_)
SumMinorUnits(txs) ==
    IF txs = <<>> THEN 0 ELSE Head(txs).amount.num + SumMinorUnits(Tail(txs))

\* C10: in a successful result for address X over the fetched list T,
\* incoming_transactions counts the transactions of T to X,
\* outgoing_transactions those from X, total_volume is the sum of all amounts
\* of T and total_transactions is the length of T.
C10_Statistics ==
    (pc = "done" /\ result.kind = "analysis") =>
        /\ result.incoming_transactions = CountTo(transactions, address)
        /\ result.outgoing_transactions = CountFrom(transactions, address)
        /\ result.total_transactions = Len(transactions)
        /\ result.total_volume.num = SumMinorUnits(transactions)
        /\ \A k \in 1..Len(transactions) :
              result.total_volume.exp = transactions[k].amount.exp

\* [X -> Y, Y -> X, X -> X]: two incoming, two outgoing, volume 3 + 5 + 7
C10_Witness ==
    /\ pc = "done"
    /\ result.kind = "analysis"
    /\ address = EthX
    /\ Len(transactions) = 3
    /\ transactions[1].to_address = EthY
    /\ transactions[2].from_address = EthY
    /\ transactions[3].from_address = EthX /\ transactions[3].to_address = EthX
    /\ result.incoming_transactions = 2
    /\ result.outgoing_transactions = 2
    /\ result.total_volume = Amount(15, 18)

\* -------------------------------------------------------------------- C11

\* C11: while and after build_transaction_tree runs on a list, with n the
\* number of transactions processed so far, the graph has at most 2 * n nodes
\* and at most n edges, and both endpoints of every edge are nodes of the
\* graph; for the empty list the returned graph has no node and no edge.
C11_GraphBounds ==
    pc \in {"build", "built"} =>
        /\ Len(graph.nodes) <= 2 * i
        /\ Len(graph.edges) <= i
        /\ \A e \in 1..Len(graph.edges) :
              /\ \E k \in 1..Len(graph.nodes) : graph.nodes[k].id = graph.edges[e].u
              /\ \E k \in 1..Len(graph.nodes) : graph.nodes[k].id = graph.edges[e].v
        /\ pc = "built" =>
              /\ i = Len(transactions)
              /\ result = [kind |-> "graph", graph |-> graph]
              /\ transactions = <<>> => (graph.nodes = <<>> /\ graph.edges = <<>>)

\* two transfers over four addresses: the bounds are met with equality
C11_Witness ==
    /\ pc = "built"
    /\ Len(transactions) = 2
    /\ Len(graph.nodes) = 4
    /\ Len(graph.edges) = 2

\* -------------------------------------------------------------------- C12

\* a transaction with a hash and both addresses
WellFormed(tx) ==
    /\ tx.tx_hash # None
    /\ tx.from_address # None
    /\ tx.to_address # None

\* the graph has an edge carrying the data of transaction tx
EdgeOf(G, tx) ==
    \E e \in 1..Len(G.edges) :
        /\ G.edges[e].u = tx.from_address
        /\ G.edges[e].v = tx.to_address
        /\ G.edges[e].tx_hash = tx.tx_hash
        /\ G.edges[e].amount = tx.amount
        /\ G.edges[e].timestamp = tx.timestamp

\* C12: the graph built from a list of n well-formed transactions has exactly
\* n edges, one for each transaction with its tx_hash, amount and timestamp,
\* also when several transactions share the same pair of addresses.
C12_OneEdgePerTransaction ==
    (pc = "built" /\ \A k \in 1..Len(transactions) : WellFormed(transactions[k])) =>
        /\ Len(graph.edges) = Len(transactions)
        /\ \A k \in 1..Len(transactions) : EdgeOf(graph, transactions[k])

\* -------------------------------------------------------------------- C13

\* the timestamps of the first n transactions of txs that touch address a
TimestampsAt(txs, n, a) ==
    { txs[k].timestamp : k \in { j \in 1..n : txs[j].from_address = a \/ txs[j].to_address = a } }

\* C13: after every step of build_transaction_tree on well-formed
\* transactions, every node's first_seen is the minimum and its last_seen the
\* maximum timestamp of the processed transactions that touch the node, so
\* first_seen <= last_seen.
C13_SeenRange ==
    (pc \in {"build", "built"} /\ \A k \in 1..i : WellFormed(transactions[k])) =>
        \A n \in 1..Len(graph.nodes) :
            LET ts == TimestampsAt(transactions, i, graph.nodes[n].id) IN
            /\ graph.nodes[n].first_seen <= graph.nodes[n].last_seen
            /\ graph.nodes[n].first_seen \in ts
            /\ graph.nodes[n].last_seen \in ts
            /\ \A t \in ts : graph.nodes[n].first_seen <= t /\ t <= graph.nodes[n].last_seen

\* -------------------------------------------------------------------- C14

\* C14: a malformed transaction (no hash, or no from or to address) in the
\* list does not abort build_transaction_tree and is skipped: the returned
\* graph is the graph built from the well-formed transactions of the list
\* alone, and the malformed ones contribute no edge.
C14_MalformedSkipped ==
    pc = "built" =>
        /\ graph = build_transaction_tree(SelectSeq(transactions, WellFormed))
        /\ \A k \in 1..Len(transactions) :
              ~WellFormed(transactions[k]) => ~EdgeOf(graph, transactions[k])

\* -------------------------------------------------------------------- C15

\* C15: when no Etherscan API key is configured, the Ethereum adapter returns
\* an empty list without making an upstream call and without raising, and
\* analyze of an ETH address returns the not-found error.
C15_NoKeyDegrades ==
    (~etherscan_api_key /\ currency = "ETH" /\ pc # "idle") =>
        /\ calls = <<>>
        /\ transactions = <<>>
        /\ pc \in {"fetch", "fetched", "done"}
        /\ pc = "done" => result = NotFound

C15_Witness ==
    /\ ~etherscan_api_key
    /\ pc = "done"
    /\ address = EthX
    /\ steps = <<"detect_currency", "get_ethereum_transactions">>
    /\ calls = <<>>
    /\ result = NotFound

\* -------------------------------------------------------------------- C16

\* the adapter got as far as its loop over the records
LoopReached ==
    /\ calls # <<>>
    /\ \A k \in 1..Len(calls) : calls[k].outcome = "ok"
    /\ steps[1] = "get_ethereum_transactions" => upstream.response.status = "1"
    /\ steps[1] = "get_bitcoin_transactions" => Len(calls) = 2

\* the records the loop goes through
Considered ==
    IF steps[1] = "get_tron_transactions" THEN upstream.response.result
    ELSE SubSeq(upstream.response.result, 1,
                IF max_transactions_arg < Len(upstream.response.result)
                THEN max_transactions_arg ELSE Len(upstream.response.result))

\* the record is a JSON object from which the adapter makes a transaction
Parseable(r) ==
    /\ r.dict
    /\ CASE steps[1] = "get_ethereum_transactions" ->
                /\ r.value >= 0 /\ r.timeStamp >= 0 /\ r.blockNumber >= 0
                /\ r.hash # Missing /\ r.from # Missing /\ r.to # Missing
         [] steps[1] = "get_bitcoin_transactions" -> r.block_time > 0 /\ r.txid # <<>>
         [] OTHER -> /\ r.type = "Transfer" /\ r.value >= 0
                     /\ r.txID # Missing /\ r.block_timestamp >= 0

\* the hash the record gives its transaction
RecordHash(r) ==
    CASE steps[1] = "get_ethereum_transactions" -> r.hash
      [] steps[1] = "get_bitcoin_transactions" -> r.txid
      [] OTHER -> r.txID

\* C16: an adapter whose loop over the records is reached returns exactly
\* the transactions of the parseable records among those considered, in
\* upstream order; a record that fails to parse is skipped and drops no other.
C16_BadRecordSkipped ==
    (pc = "returned" /\ LoopReached) =>
        LET good == SelectSeq(Considered, Parseable) IN
        /\ Len(result.list) = Len(good)
        /\ \A k \in 1..Len(good) : result.list[k].tx_hash = RecordHash(good[k])

\* -------------------------------------------------------------------- C17

\* C17: each adapter returns at most max_transactions transactions, whatever
\* the upstream answers.
C17_AtMostLimit ==
    pc = "returned" => Len(result.list) <= max_transactions_arg

\* -------------------------------------------------------------------- C18

RECURSIVE SoloDfs(_, _, _, _, _)
RECURSIVE SoloLoop(_, _, _, _, _)

\* dfs(node, depth, p) run to its end by a thread on its own, from the
\* traversal state st = [visited, end_receivers, raised]
SoloDfs(G, node, depth, p, st) ==
    IF st.raised \/ depth > 5 \/ node \in st.visited THEN st
    ELSE LET entered == [st EXCEPT !.visited = @ \cup {node}]
             out == SelectSeq(G.edges, LAMBDA e : e.u = node)
         IN
         IF \A k \in 1..Len(G.nodes) : G.nodes[k].id # node
         THEN [entered EXCEPT !.raised = TRUE]
         ELSE IF out = <<>>
         THEN [entered EXCEPT !.end_receivers =
                                  Append(@, [address |-> node, probability |-> p])]
         ELSE SoloLoop(G, out, depth, p, entered)

\* the for loop of dfs over the out-edges es of a node at the given depth
SoloLoop(G, es, depth, p, st) ==
    IF es = <<>> \/ st.raised THEN st
    ELSE SoloLoop(G, Tail(es), depth, p,
                  SoloDfs(G, Head(es).v, depth + 1, Rat(p.num * 4, p.den * 5), st))

\* what analyze_transaction_flow(a) gives a thread that runs alone and is
\* answered by the explorer with the history txs
SoloResult(a, cur, txs) ==
    LET G == build_transaction_tree(txs)
        ranked == SoloDfs(G, a, 0, Rat(1, 1),
                          [visited |-> {}, end_receivers |-> <<>>, raised |-> FALSE])
    IN
    IF txs = <<>> THEN NotFound
    ELSE IF ranked.raised THEN [kind |-> "raised", exception |-> "NetworkXError"]
    ELSE analysis(a, cur, txs, G, top_candidates(ranked.end_receivers))

\* the local variables l of a thread are those of a call running alone
RunsAsAlone(l) ==
    /\ l.pc \in {"done", "raised"} => l.result = SoloResult(l.address, l.currency, l.transactions)
    /\ l.pc \in {"build", "dfs", "ranked", "done", "raised"} =>
          l.graph = build_transaction_tree(SubSeq(l.transactions, 1, l.i))
    /\ l.pc = "dfs" =>
          /\ l.visited \subseteq { l.graph.nodes[k].id : k \in 1..Len(l.graph.nodes) }
                               \cup {l.address}
          /\ \A k \in 1..Len(l.stack) : l.stack[k].entered => l.stack[k].node \in l.visited
          /\ \A k \in 1..Len(l.end_receivers) : l.end_receivers[k].address \in l.visited

\* C18: two analyze calls on one tracker, interleaved in any way, each keep
\* their own graph, visited set and candidate list, and each returns (or
\* raises) what it would when run alone on the same upstream answer.
C18_ThreadsIndependent ==
    /\ RunsAsAlone(Locals)
    /\ \A t \in Threads \ {threads.running} : RunsAsAlone(threads.saved[t])

\* one thread is set aside in the middle of its traversal, with nodes
\* visited, while the other has run its traversal from the same address over
\* the same history to the end
C18_Witness ==
    /\ pc = "done"
    /\ result.kind = "analysis"
    /\ Len(result.end_receivers) = 1
    /\ \E t \in Threads \ {threads.running} :
          /\ threads.saved[t].pc = "dfs"
          /\ threads.saved[t].address = address
          /\ threads.saved[t].transactions = transactions
          /\ threads.saved[t].visited # {}
          /\ threads.saved[t].visited # visited

\* -------------------------------------------------------------------- C19

\* the adapter of a supported currency tag
AdapterOf(cur) ==
    CASE cur = "ETH" -> "get_ethereum_transactions"
      [] cur = "BTC" -> "get_bitcoin_transactions"
      [] cur = "TRX" -> "get_tron_transactions"

\* the steps of a complete analysis, in order
StepOrder ==
    (IF currency_arg = "" THEN <<"detect_currency">> ELSE <<>>)
    \o (IF currency \in {"ETH", "BTC", "TRX"} THEN <<AdapterOf(currency)>> ELSE <<>>)
    \o <<"build_transaction_tree", "find_end_receivers", "aggregate">>

AdapterSteps == { k \in 1..Len(steps) : steps[k] \in AdapterNames }

\* C19: an analyze invocation calls at most one adapter, exactly one once
\* the fetch is over for a resolved currency of ETH, BTC or TRX, and that one
\* is the adapter of the resolved tag; its steps occur in the order resolve
\* currency, fetch, build graph, rank, aggregate; and after an error outcome
\* (unsupported currency, no transactions, an exception of the ranking) no
\* later step has run.
C19_OneAdapterInOrder ==
    pc # "idle" =>
        /\ Cardinality(AdapterSteps) <= 1
        /\ Len(steps) <= Len(StepOrder)
        /\ steps = SubSeq(StepOrder, 1, Len(steps))
        /\ (currency \in {"ETH", "BTC", "TRX"} /\ pc # "fetch") =>
              /\ Cardinality(AdapterSteps) = 1
              /\ \E k \in 1..Len(steps) : steps[k] = AdapterOf(currency)
        /\ currency \notin {"ETH", "BTC", "TRX"} => AdapterSteps = {}
        /\ (pc = "done" /\ result = Unsupported) =>
              \A k \in 1..Len(steps) : steps[k] = "detect_currency"
        /\ (pc = "done" /\ result = NotFound) => steps[Len(steps)] = AdapterOf(currency)
        /\ pc = "raised" => steps[Len(steps)] = "find_end_receivers"
        /\ (pc = "done" /\ result.kind = "analysis") => steps = StepOrder

C19_Witness ==
    /\ pc = "done"
    /\ result.kind = "analysis"
    /\ currency_arg = ""
    /\ currency = "TRX"
    /\ steps = <<"detect_currency", "get_tron_transactions", "build_transaction_tree",
                 "find_end_receivers", "aggregate">>
    /\ Len(calls) = 1

\* -------------------------------------------------------------------- C20

\* n is a node of G without outgoing edges
IsSink(G, n) ==
    /\ \E k \in 1..Len(G.nodes) : G.nodes[k].id = n
    /\ \A e \in 1..Len(G.edges) : G.edges[e].u # n

\* every recorded candidate is a sink of the graph, recorded at the end of a
\* path of k <= max_depth hops from start with probability 0.8^k, and every
\* returned candidate is a recorded one
RecordedAreSinksWithinDepth ==
    /\ \A j \in 1..Len(end_receivers) :
          /\ IsSink(graph, end_receivers[j].address)
          /\ \E k \in 0..max_depth :
                /\ end_receivers[j].probability = DecayPower(k)
                /\ end_receivers[j].address \in EndsOfWalks(graph, start_address, k)
    /\ pc = "ranked" =>
          \A j \in 1..Len(result.list) :
              \E k \in 1..Len(end_receivers) : result.list[j] = end_receivers[k]

Recorded(n) == \E j \in 1..Len(end_receivers) : end_receivers[j].address = n

RECURSIVE CallsOfDfs(_, _, _, _, _)
RECURSIVE CallsOfLoop(_, _, _, _, _)

\* the calls dfs(node, depth) of one traversal in the order they are made,
\* added to st = [visited, calls]
CallsOfDfs(G, node, depth, bound, st) ==
    LET called == [st EXCEPT !.calls = Append(@, [node |-> node, depth |-> depth])]
        entered == [called EXCEPT !.visited = @ \cup {node}]
        out == SelectSeq(G.edges, LAMBDA e : e.u = node)
    IN
    IF depth > bound \/ node \in st.visited THEN called
    ELSE IF out = <<>> THEN entered
    ELSE CallsOfLoop(G, out, depth, bound, entered)

CallsOfLoop(G, es, depth, bound, st) ==
    IF es = <<>> THEN st
    ELSE CallsOfLoop(G, Tail(es), depth, bound,
                     CallsOfDfs(G, Head(es).v, depth + 1, bound, st))

\* the number of hops by which the traversal from s first reaches n
FirstReachDepth(G, s, bound, n) ==
    LET made == CallsOfDfs(G, s, 0, bound, [visited |-> {}, calls |-> <<>>]).calls
        first == CHOOSE k \in 1..Len(made) :
                     /\ made[k].node = n
                     /\ \A j \in 1..(k - 1) : made[j].node # n
    IN made[first].depth

\* C20 as claimed: every candidate find_end_receivers records is a sink
\* reached from start by a path of at most max_depth hops, a node with
\* outgoing edges is never recorded, and no node that the traversal first
\* reaches by more than max_depth hops is recorded.
C20_FirstReachDecides ==
    /\ RecordedAreSinksWithinDepth
    /\ pc = "ranked" =>
          \A j \in 1..Len(end_receivers) :
              FirstReachDepth(graph, start_address, max_depth,
                              end_receivers[j].address) <= max_depth

\* C20 as amended: every candidate find_end_receivers records or returns is
\* a sink of the graph recorded at the end of a path of k <= max_depth hops
\* from start, with probability 0.8^k; a node with outgoing edges is never
\* recorded, also when the depth bound stops the traversal at it; nothing is
\* recorded at a depth beyond max_depth (a sink passed over there stays
\* unvisited and is recorded when a path within the bound reaches it later).
C20_OnlySinksWithinDepth ==
    /\ RecordedAreSinksWithinDepth
    /\ \A j \in 1..Len(stack) : stack[j].entered => stack[j].depth <= max_depth
    /\ (pc = "dfs" /\ stack # <<>> /\ ~Head(stack).entered
                   /\ Head(stack).depth > max_depth) =>
          /\ Head(stack).depth = max_depth + 1
          /\ Len(stack) > 1
          /\ ~IsSink(graph, stack[2].node)
          /\ ~Recorded(stack[2].node)

\* n0 -> n1, n1 -> n2, n0 -> n2 from n0 with max_depth 1: n1 has an outgoing
\* edge and is not recorded; n2 is first reached by two hops, passed over,
\* and recorded when the edge n0 -> n2 reaches it by one hop
C20_Witness ==
    /\ pc = "ranked"
    /\ max_depth = 1
    /\ start_address = Node("n", 0)
    /\ Len(graph.edges) = 3
    /\ graph.edges[1].u = Node("n", 0) /\ graph.edges[1].v = Node("n", 1)
    /\ graph.edges[2].u = Node("n", 1) /\ graph.edges[2].v = Node("n", 2)
    /\ graph.edges[3].u = Node("n", 0) /\ graph.edges[3].v = Node("n", 2)
    /\ result.list = << [address |-> Node("n", 2), probability |-> Rat(4, 5)] >>

\* ---------------------------------------------------------------- C21

\* the number of hops by which the traversal from s first reaches n within
\* the depth bound, that is, by a call dfs(n, depth) with depth <= bound
FirstEnteredDepth(G, s, bound, n) ==
    LET made == CallsOfDfs(G, s, 0, bound, [visited |-> {}, calls |-> <<>>]).calls
        within == SelectSeq(made, LAMBDA c : c.node = n /\ c.depth <= bound)
    IN Head(within).depth

\* no node is expanded twice and no address is recorded twice: the nodes whose
\* for loop is running are distinct and visited, the recorded addresses are
\* distinct, visited, and none of them has a for loop running
EnteredAtMostOnce ==
    /\ \A j \in 1..Len(stack) : stack[j].entered => stack[j].node \in visited
    /\ \A j, k \in 1..Len(stack) :
          (j # k /\ stack[j].entered /\ stack[k].entered) => stack[j].node # stack[k].node
    /\ \A j, k \in 1..Len(end_receivers) :
          j # k => end_receivers[j].address # end_receivers[k].address
    /\ \A j \in 1..Len(end_receivers) :
          /\ end_receivers[j].address \in visited
          /\ \A k \in 1..Len(stack) :
                stack[k].entered => stack[k].node # end_receivers[j].address

\* C21 as claimed: during one find_end_receivers traversal every node is
\* expanded at most once and every address is recorded at most once, and the
\* probability of a candidate is 0.8^k for the number of hops k of the first
\* path, in successor iteration order, by which the traversal reaches it.
C21_FirstPathFixes ==
    /\ EnteredAtMostOnce
    /\ pc = "ranked" =>
          \A j \in 1..Len(end_receivers) :
              end_receivers[j].probability =
                  DecayPower(FirstReachDepth(graph, start_address, max_depth,
                                             end_receivers[j].address))

\* C21 as amended: during one find_end_receivers traversal every node is
\* expanded at most once and every address is recorded at most once, and the
\* probability of a candidate is 0.8^k for the number of hops k of the first
\* path, in successor iteration order, that reaches it by at most max_depth
\* hops; a path that reaches it by more hops than max_depth fixes nothing.
C21_FirstPathWithinDepthFixes ==
    /\ EnteredAtMostOnce
    /\ pc = "ranked" =>
          \A j \in 1..Len(end_receivers) :
              end_receivers[j].probability =
                  DecayPower(FirstEnteredDepth(graph, start_address, max_depth,
                                               end_receivers[j].address))

\* n0 -> n1, n1 -> n2, n0 -> n2 from n0 with max_depth 2: n2 is recorded once,
\* with 0.8^2 for the path through n1 that reaches it first, not with 0.8 for
\* the shorter and more probable edge n0 -> n2
C21_Witness ==
    /\ pc = "ranked"
    /\ max_depth = 2
    /\ start_address = Node("n", 0)
    /\ Len(graph.edges) = 3
    /\ graph.edges[1].u = Node("n", 0) /\ graph.edges[1].v = Node("n", 1)
    /\ graph.edges[2].u = Node("n", 1) /\ graph.edges[2].v = Node("n", 2)
    /\ graph.edges[3].u = Node("n", 0) /\ graph.edges[3].v = Node("n", 2)
    /\ end_receivers = << [address |-> Node("n", 2), probability |-> Rat(16, 25)] >>

\* ---------------------------------------------------------------- C22

\* the nodes that can be reached from the nodes in seen, these included
RECURSIVE ReachableFrom(_, _)
ReachableFrom(G, seen) ==
    LET more == seen \cup { n \in NodeIds(G) : \E u \in seen : HasEdge(G, u, n) }
    IN IF more = seen THEN seen ELSE ReachableFrom(G, more)

\* no node without outgoing edges can be reached from s
NoSinkReachable(G, s) == \A n \in ReachableFrom(G, {s}) : ~IsSink(G, n)

\* a walk of one hop or more leads from s back to s
OnCycle(G, s) == \E u \in ReachableFrom(G, {s}) : HasEdge(G, u, s)

\* C22: every call of find_end_receivers ends, on graphs with cycles and
\* self-loops and for every max_depth >= 0; from a start that is a node of the
\* graph it ends by returning; and from a start on a cycle (or with only a
\* self-loop) from which no sink can be reached it returns an empty list.
C22_Terminates ==
    /\ (pc = "dfs") ~> Finished
    /\ [](Finished /\ HasNode(graph, start_address) => pc = "ranked")
    /\ []((pc = "ranked" /\ OnCycle(graph, start_address)
                          /\ NoSinkReachable(graph, start_address))
             => (end_receivers = <<>> /\ result.list = <<>>))

\* n0 -> n1 -> n0 with a self-loop n1 -> n1, from n0 with the largest depth
\* bound: the traversal has returned, with no candidate
C22_Witness ==
    /\ pc = "ranked"
    /\ max_depth = MaxDepth
    /\ start_address = Node("n", 0)
    /\ HasEdge(graph, Node("n", 0), Node("n", 1))
    /\ HasEdge(graph, Node("n", 1), Node("n", 0))
    /\ HasEdge(graph, Node("n", 1), Node("n", 1))
    /\ NoSinkReachable(graph, start_address)
    /\ result.list = <<>>

\* ---------------------------------------------------------------- C23

BitcoinReturned == pc = "returned" /\ steps[1] = "get_bitcoin_transactions"

\* the address call answered with a transaction count that is not zero
CountReported == upstream.summary.kind = "ok" /\ upstream.summary.tx_count # 0

\* C23: the Bitcoin adapter calls the address summary first; the
\* transaction-list call is its second and last call and is made exactly when
\* the summary was answered with a non-zero transaction count; with a count
\* of zero (or none) the adapter returns an empty sequence after one call.
C23_SummaryThenList ==
    BitcoinReturned =>
        /\ Len(calls) \in {1, 2}
        /\ calls[1].endpoint = "blockstream/address"
        /\ Len(calls) = 2 <=> CountReported
        /\ Len(calls) = 2 => calls[2].endpoint = "blockstream/address/txs"
        /\ (upstream.summary.kind = "ok" /\ upstream.summary.tx_count = 0) =>
               (result.list = <<>> /\ Len(calls) = 1)

\* the summary reports no transaction while the list endpoint would have
\* answered with a confirmed transaction: one call, nothing returned
C23_Witness ==
    /\ BitcoinReturned
    /\ upstream.summary.kind = "ok" /\ upstream.summary.tx_count = 0
    /\ upstream.response.kind = "ok"
    /\ Len(upstream.response.result) > 0
    /\ upstream.response.result[1].dict /\ upstream.response.result[1].block_time > 0
    /\ max_transactions_arg > 0
    /\ Len(calls) = 1
    /\ result.list = <<>>

\* ---------------------------------------------------------------- C24

\* a transaction the Bitcoin adapter makes for a query of a: sender a, the
\* placeholder amount 0.001, currency BTC
Placeholder(tx, a) ==
    /\ tx.from_address = a
    /\ tx.amount = Amount(1, 3)
    /\ tx.currency = "BTC"

\* C24 as claimed: the Bitcoin adapter returns exactly one Transaction for
\* each of the first limit entries of the upstream transaction list, in
\* order, each with the queried address as sender, amount 0.001 and currency
\* BTC.
C24_OnePerEntry ==
    (BitcoinReturned /\ LoopReached) =>
        /\ Len(result.list) = Len(Considered)
        /\ \A k \in 1..Len(result.list) :
              /\ result.list[k].tx_hash = Considered[k].txid
              /\ Placeholder(result.list[k], address)

\* C24 as amended: the Bitcoin adapter returns exactly one Transaction for
\* each of the first limit entries of the upstream transaction list that has
\* a txid and a block_time (a confirmed transaction), in order, each with the
\* queried address as sender, an empty receiver, amount 0.001 and currency
\* BTC; the other entries yield none, and an entry among the first limit that
\* is no JSON object leaves the whole result empty.
C24_OnePerConfirmedEntry ==
    (BitcoinReturned /\ LoopReached) =>
        LET confirmed == SelectSeq(Considered,
                                   LAMBDA r : r.block_time > 0 /\ r.txid # <<>>)
        IN
        IF \E k \in 1..Len(Considered) : ~Considered[k].dict
        THEN result.list = <<>>
        ELSE /\ Len(result.list) = Len(confirmed)
             /\ \A k \in 1..Len(result.list) :
                   /\ result.list[k].tx_hash = confirmed[k].txid
                   /\ result.list[k].timestamp = confirmed[k].block_time * 1000
                   /\ result.list[k].to_address = <<>>
                   /\ Placeholder(result.list[k], address)

\* a confirmed, an unconfirmed and another confirmed entry within the limit:
\* two transactions, both with the placeholder values
C24_Witness ==
    /\ BitcoinReturned /\ LoopReached
    /\ Len(Considered) = 3
    /\ Considered[1].block_time > 0
    /\ Considered[2].dict /\ Considered[2].block_time = 0
    /\ Considered[3].block_time > 0 /\ Considered[3].txid # Considered[1].txid
    /\ Len(result.list) = 2
    /\ result.list[1].tx_hash = Considered[1].txid
    /\ result.list[2].tx_hash = Considered[3].txid
    /\ \A k \in 1..2 : Placeholder(result.list[k], BtcB)

\* ---------------------------------------------------------------- C25

TronReturned == pc = "returned" /\ steps[1] = "get_tron_transactions"

\* C25: every Transaction the Tron adapter returns has currency TRX and comes
\* from an upstream entry of type Transfer; the parseable entries of type
\* Transfer yield one Transaction each, in upstream order, and the entries of
\* another type or without type yield none.
C25_TransfersOnly ==
    (TronReturned /\ LoopReached) =>
        LET entries == upstream.response.result
            transfers == SelectSeq(entries, Parseable)
        IN
        /\ \A k \in 1..Len(result.list) :
              /\ result.list[k].currency = "TRX"
              /\ \E j \in 1..Len(entries) :
                    /\ entries[j].dict /\ entries[j].type = "Transfer"
                    /\ entries[j].txID = result.list[k].tx_hash
        /\ Len(result.list) = Len(transfers)
        /\ \A k \in 1..Len(transfers) : result.list[k].tx_hash = transfers[k].txID

\* C25 restricted to answers whose entries are all JSON objects
C25_TransfersOnlyAmongObjects ==
    (\A j \in 1..Len(upstream.response.result) : upstream.response.result[j].dict)
        => C25_TransfersOnly

\* ---------------------------------------------------------------- C26

ClassifierConsulted == \E k \in 1..Len(steps) : steps[k] = "detect_currency"

\* C26: in analyze the classifier is consulted exactly when no currency is
\* supplied, and then its tag for the address is the resolved currency; a
\* supplied currency is the resolved currency whatever the address looks
\* like: ETH, BTC or TRX selects its adapter and any other value gives the
\* unsupported-currency error with no adapter run; and the currency reported
\* in a result is the resolved one.
C26_SuppliedCurrencyDecides ==
    pc # "idle" =>
        /\ ClassifierConsulted <=> currency_arg = ""
        /\ currency = IF currency_arg = "" THEN detect_currency(address) ELSE currency_arg
        /\ (currency_arg \in {"ETH", "BTC", "TRX"} /\ pc # "fetch") =>
              /\ steps[1] = AdapterOf(currency_arg)
              /\ AdapterSteps = {1}
        /\ (currency_arg \notin {"", "ETH", "BTC", "TRX"} /\ pc # "fetch") =>
              /\ pc = "done" /\ result = Unsupported
              /\ steps = <<>>
        /\ (pc = "done" /\ result.kind = "analysis") => result.currency = currency

\* an Ethereum-looking address analysed with currency BTC supplied: the
\* classifier is not consulted, the Bitcoin adapter runs and the result
\* reports BTC
C26_Witness ==
    /\ pc = "done"
    /\ address = EthX
    /\ detect_currency(address) = "ETH"
    /\ currency_arg = "BTC"
    /\ ~ClassifierConsulted
    /\ steps[1] = "get_bitcoin_transactions"
    /\ result.kind = "analysis"
    /\ result.currency = "BTC"

\* ---------------------------------------------------------------- C27

\* find_end_receivers has been called and analyze has not returned an error
AfterBuild ==
    \/ pc \in {"dfs", "ranked", "raised"}
    \/ pc = "done" /\ result.kind = "analysis"

\* a step taken inside find_end_receivers leaves the graph and the list alone
RankingKeeps ==
    (pc \in {"dfs", "ranked"}) => (graph' = graph /\ transactions' = transactions)

\* C27: no step of find_end_receivers changes the graph (its nodes, edges and
\* attributes) or the fetched transaction list, whether the start address is
\* a node of the graph or not; so from the call on the graph is the one built
\* from the fetched list, and the analysis result carries that graph and the
\* fetched list itself, unmodified and in fetched order.
C27_GraphAndListUnchanged ==
    /\ [][RankingKeeps]_vars
    /\ [](AfterBuild => graph = build_transaction_tree(transactions))
    /\ []((pc = "done" /\ result.kind = "analysis") =>
              /\ result.transactions = transactions
              /\ result.transaction_tree = graph)

\* an analysis of three fetched transactions that form a cycle through the
\* queried address: the traversal ran through every node and found no
\* candidate, and the result carries the fetched list and the built graph
C27_Witness ==
    /\ pc = "done" /\ result.kind = "analysis"
    /\ Len(transactions) = 3
    /\ visited = NodeIds(graph)
    /\ Cardinality(visited) >= 2
    /\ result.end_receivers = <<>>
    /\ result.transactions = transactions
    /\ result.transaction_tree = build_transaction_tree(transactions)

\* ---------------------------------------------------------------- C28

\* the sinks that a walk of at most bound hops from s ends in
SinksWithin(G, s, bound) ==
    { n \in NodeIds(G) : IsSink(G, n) /\ \E k \in 0..bound : n \in EndsOfWalks(G, s, k) }

\* C28 as claimed: when find_end_receivers returns, every sink whose shortest
\* hop distance from start is at most max_depth has been recorded as a
\* candidate (before the truncation to ten).
C28_EverySinkWithinDepth ==
    pc = "ranked" =>
        \A n \in SinksWithin(graph, start_address, max_depth) : Recorded(n)

\* C28 as amended: when find_end_receivers returns, every sink that is a
\* direct successor of start has been recorded if max_depth >= 1, and every
\* sink that can be reached from start has been recorded if max_depth is at
\* least the number of nodes less one (no simple path is then cut off); with
\* a smaller max_depth a sink within the bound may be missing, its
\* predecessor having been visited first at depth max_depth.
C28_SinksRecordedWhenNotCutOff ==
    pc = "ranked" =>
        /\ max_depth >= 1 =>
              \A n \in SinksWithin(graph, start_address, 1) : Recorded(n)
        /\ max_depth >= Len(graph.nodes) - 1 =>
              \A n \in ReachableFrom(graph, {start_address}) :
                  IsSink(graph, n) => Recorded(n)

\* n0 -> n1, n1 -> n2, n0 -> n2 from n0 with max_depth 2 = nodes - 1: the
\* longer path through n1 is explored first and the sink n2 is recorded
C28_Witness ==
    /\ pc = "ranked"
    /\ max_depth = 2
    /\ Len(graph.nodes) = 3
    /\ start_address = Node("n", 0)
    /\ successors(graph, Node("n", 0)) = << Node("n", 1), Node("n", 2) >>
    /\ successors(graph, Node("n", 1)) = << Node("n", 2) >>
    /\ IsSink(graph, Node("n", 2))
    /\ Recorded(Node("n", 2))

\* s0 -> s1 -> s2 -> t0 and s0 -> s2 from s0 with max_depth 2: t0 is two hops
\* from s0 and is not recorded, s2 having been visited first at depth 2
C28_SinkMissed ==
    /\ pc = "ranked"
    /\ max_depth = 2
    /\ start_address = Node("s", 0)
    /\ Node("t", 0) \in SinksWithin(graph, start_address, 2)
    /\ ~Recorded(Node("t", 0))
    /\ result.list = <<>>

\* ---------------------------------------------------------------- C29

\* processing the transaction raises part-way: add_node or add_edge refuses None
FailsPartWay(tx) == tx.from_address = None \/ tx.to_address = None

\* C29: a transaction whose processing fails part-way leaves the graph as it
\* was before that transaction: after the step on such a transaction the
\* graph is the graph built from the transactions before it, with no node
\* added, no edge added and no node attribute changed.
C29_SkipIsAtomic ==
    (pc \in {"build", "built"} /\ i >= 1 /\ FailsPartWay(transactions[i])) =>
        graph = build_transaction_tree(SubSeq(transactions, 1, i - 1))

\* C29 for the transactions that fail at the first add_node (no from_address)
C29_SkipWithoutSenderIsAtomic ==
    (pc \in {"build", "built"} /\ i >= 1 /\ transactions[i].from_address = None) =>
        graph = build_transaction_tree(SubSeq(transactions, 1, i - 1))

\* ---------------------------------------------------------------- C30

BitcoinAnalysed == pc = "done" /\ result.kind = "analysis" /\ currency = "BTC"

\* C30: every successful analyze with currency BTC of a (non-empty) address
\* ends with a graph of exactly two nodes, the queried address and the empty
\* address, and the one edge from the former to the latter; with
\* incoming_transactions 0 and outgoing_transactions = total_transactions;
\* and with end_receivers exactly [('', 0.8)].
C30_BitcoinShape ==
    (BitcoinAnalysed /\ address # <<>>) =>
        /\ Len(result.transaction_tree.nodes) = 2
        /\ NodeIds(result.transaction_tree) = {address, <<>>}
        /\ Len(result.transaction_tree.edges) = 1
        /\ HasEdge(result.transaction_tree, address, <<>>)
        /\ result.incoming_transactions = 0
        /\ result.outgoing_transactions = result.total_transactions
        /\ result.total_transactions >= 1
        /\ result.end_receivers = << [address |-> <<>>, probability |-> Rat(4, 5)] >>

\* C30 without the restriction to a non-empty address
C30_BitcoinShapeAnyAddress ==
    BitcoinAnalysed => (address # <<>> /\ C30_BitcoinShape)

\* a Bitcoin address detected as BTC whose upstream list gave two
\* transactions: two nodes, one edge, both transactions outgoing
C30_Witness ==
    /\ BitcoinAnalysed
    /\ address = BtcB
    /\ currency_arg = ""
    /\ result.total_transactions = 2
    /\ result.outgoing_transactions = 2
    /\ Len(result.transaction_tree.edges) = 1
    /\ result.end_receivers = << [address |-> <<>>, probability |-> Rat(4, 5)] >>

=============================================================================
